---- MODULE Spec2Model ----
(***************************************************************************)
(* A model of the dashboard's server side: the campaign/result join, the   *)
(* campaign insight handler with its in-memory LLM cache, the windowed     *)
(* order statistics and the two insight rankers.                           *)
(*                                                                         *)
(* Conventions.                                                            *)
(*   - A JavaScript value that may be null or undefined is a sequence of   *)
(*     length 0 (None) or 1 (Some(v)).                                     *)
(*   - A JavaScript number that may be NaN is a record [nan, v].           *)
(*   - A fraction (conversion rate, score) is a record [n, d] with d > 0,  *)
(*     compared by cross-multiplication.                                   *)
(*   - A date string is a TLA+ string; DateGetTime parses it as            *)
(*     new Date(s).getTime() does, giving NaN for what is not a date.      *)
(***************************************************************************)
EXTENDS Integers, Sequences, FiniteSets, TLC

VARIABLES
    \* getCampaignsWithResults (campaigns.ts)
    rawCampaigns,   \* the loaded campaigns.json
    rawResults,     \* the loaded campaigns_results.json
    joined,         \* None before the join, Some(list of Campaign) after
    \* campaign insight handler and the LLM cache (useCampaignInsightLLM.ts)
    cache,          \* the module-level Map: cache key -> CacheEntry
    now,            \* Date.now()
    ticks,          \* how many times the clock has advanced
    llmConfigured,  \* runtime config has both llm.apiUrl and llm.apiKey
    req,            \* request id -> the request's position and locals
    \* generateCacheKey applied to a summary list and to a permutation of it
    summariesIn,    \* a summary list
    summariesPerm,  \* the same summaries in another order
    keys,           \* None, or Some(<<key of summariesIn, key of summariesPerm>>)
    \* the stats handler (server/api/stats.ts)
    orders,         \* the loaded orders
    query,          \* the request's rangeStart and rangeEnd
    stats,          \* None, or Some(what the handler computed)
    \* calculateVariation on its own
    variationArgs,  \* <<current, previous>>
    variationOut,   \* None, or Some(the value returned)
    \* buildDeterministicCampaignInsight on its own
    rankCampaigns,  \* the campaigns it is given
    rankInsight,    \* None, or Some(the insight returned)
    \* the order insight handler (server/api/insights.ts, second handler)
    insightOrders,  \* the loaded orders
    orderInsight,   \* None, or Some(winningInsight)
    \* the revenue chart (app/components/home/HomeChart.client.vue)
    chartPeriod,  \* props.period
    chartRange,  \* props.range
    chartSales,  \* sales.value
    chartData, \* None, or Some(data.value)
    \* the fallback customer segmentation (server/utils/customerSegmentation.ts)
    segProfiles,  \* the profiles handed to buildFallbackSegmentation
    segmentation, \* None, or Some(the payload returned)
    \* buildCustomerFeedbackProfiles (server/utils/customerSegmentation.ts)
    profileFeedbacks,  \* the feedbacks it is given
    profileLimit,  \* its limit
    profilesBuilt, \* None, or Some(the profiles returned)
    \* the feedback normalizers (server/utils/feedbacks.ts, server/api/feedbacks handler)
    rawFeedbacks,  \* the entries of feedbacks.json
    feedbackRecords, \* None, or Some(the Feedback records produced)
    \* the server date normalizers on their own
    rawDates,  \* the raw dates handed to a normalizer
    normalizedDates, \* None, or Some(what the normalizer returned for each)
    \* parsePayload on its own (server/utils/campaigns.ts)
    rawPayload,  \* the raw payload
    payloadOut, \* None, or Some(the list returned)
    \* the sales handler (server/api/sales.ts)
    salesOrders,  \* the orders in orders-2.json
    salesQuery,  \* the request's rangeStart and rangeEnd
    salesLoad,  \* whether loadSeedsData returns or throws
    salesOut, \* None, or Some(the list the handler returned)
    \* loadSeedsData and the handlers that load seeds (server/utils/loadSeedsData.ts)
    seedBaseUrl,  \* config.seeds.apiUrl, None when not configured
    seedRemote,  \* what the remote source answers
    seedLocal,  \* the local file
    seedTransform,  \* the transform passed, None when absent
    seedLoaded,  \* None, or Some(how loadSeedsData ended)
    handlerCalled,  \* the handler serving the request
    handlerBodyValid,  \* whether the request body passes the handler's schema
    handlerResponse, \* None, or Some(what the client receives)
    \* buildCampaignResultSummaries on a campaign list
    summaryArgs,  \* the arguments of the call
    summaryCampaigns,  \* the campaigns array, read again after the call
    summaryOut, \* None before the call, then Some(summaries)
    \* the customer-segmentation handler and its LLM request
    llmProfiles,  \* the profiles passed to requestCustomerSegmentationFromLLM
    llmSegConfigured,  \* config.llm has apiUrl and apiKey
    llmSegPc,  \* idle, awaiting (the fetch), returned, thrown, served
    llmAnswer,  \* None, or Some(what the LLM endpoint answered)
    llmResult,  \* None for null, or Some(the payload returned)
    segmentationResponse  \* None, or Some(what the handler sends)

joinVars == <<rawCampaigns, rawResults, joined>>
httpVars == <<cache, now, ticks, llmConfigured, req>>
keyVars == <<summariesIn, summariesPerm, keys>>
statsVars == <<orders, query, stats>>
variationVars == <<variationArgs, variationOut>>
rankVars == <<rankCampaigns, rankInsight>>
orderInsightVars == <<insightOrders, orderInsight>>
chartVars == <<chartPeriod, chartRange, chartSales, chartData>>
segmentationVars == <<segProfiles, segmentation>>
profilesVars == <<profileFeedbacks, profileLimit, profilesBuilt>>
feedbacksVars == <<rawFeedbacks, feedbackRecords>>
dateNormalizersVars == <<rawDates, normalizedDates>>
payloadVars == <<rawPayload, payloadOut>>
salesVars == <<salesOrders, salesQuery, salesLoad, salesOut>>
seedsVars == <<seedBaseUrl, seedRemote, seedLocal, seedTransform, seedLoaded, handlerCalled, handlerBodyValid, handlerResponse>>
summariesVars == <<summaryArgs, summaryCampaigns, summaryOut>>
llmSegmentationVars == <<llmProfiles, llmSegConfigured, llmSegPc, llmAnswer, llmResult, segmentationResponse>>
vars == <<joinVars, httpVars, keyVars, statsVars, variationVars, rankVars, orderInsightVars, chartVars, segmentationVars, profilesVars, feedbacksVars, dateNormalizersVars, payloadVars, salesVars, seedsVars, summariesVars, llmSegmentationVars>>

\* what each part of the model leaves alone
notJoin == <<httpVars, keyVars, statsVars, variationVars, rankVars, orderInsightVars, chartVars, segmentationVars, profilesVars, feedbacksVars, dateNormalizersVars, payloadVars, salesVars, seedsVars, summariesVars, llmSegmentationVars>>
notHttp == <<joinVars, keyVars, statsVars, variationVars, rankVars, orderInsightVars, chartVars, segmentationVars, profilesVars, feedbacksVars, dateNormalizersVars, payloadVars, salesVars, seedsVars, summariesVars, llmSegmentationVars>>
notKey == <<joinVars, httpVars, statsVars, variationVars, rankVars, orderInsightVars, chartVars, segmentationVars, profilesVars, feedbacksVars, dateNormalizersVars, payloadVars, salesVars, seedsVars, summariesVars, llmSegmentationVars>>
notStats == <<joinVars, httpVars, keyVars, variationVars, rankVars, orderInsightVars, chartVars, segmentationVars, profilesVars, feedbacksVars, dateNormalizersVars, payloadVars, salesVars, seedsVars, summariesVars, llmSegmentationVars>>
notVariation == <<joinVars, httpVars, keyVars, statsVars, rankVars, orderInsightVars, chartVars, segmentationVars, profilesVars, feedbacksVars, dateNormalizersVars, payloadVars, salesVars, seedsVars, summariesVars, llmSegmentationVars>>
notRank == <<joinVars, httpVars, keyVars, statsVars, variationVars, orderInsightVars, chartVars, segmentationVars, profilesVars, feedbacksVars, dateNormalizersVars, payloadVars, salesVars, seedsVars, summariesVars, llmSegmentationVars>>
notOrderInsight == <<joinVars, httpVars, keyVars, statsVars, variationVars, rankVars, chartVars, segmentationVars, profilesVars, feedbacksVars, dateNormalizersVars, payloadVars, salesVars, seedsVars, summariesVars, llmSegmentationVars>>
notChart == <<joinVars, httpVars, keyVars, statsVars, variationVars, rankVars, orderInsightVars, segmentationVars, profilesVars, feedbacksVars, dateNormalizersVars, payloadVars, salesVars, seedsVars, summariesVars, llmSegmentationVars>>
notSegmentation == <<joinVars, httpVars, keyVars, statsVars, variationVars, rankVars, orderInsightVars, chartVars, profilesVars, feedbacksVars, dateNormalizersVars, payloadVars, salesVars, seedsVars, summariesVars, llmSegmentationVars>>
notProfiles == <<joinVars, httpVars, keyVars, statsVars, variationVars, rankVars, orderInsightVars, chartVars, segmentationVars, feedbacksVars, dateNormalizersVars, payloadVars, salesVars, seedsVars, summariesVars, llmSegmentationVars>>
notFeedbacks == <<joinVars, httpVars, keyVars, statsVars, variationVars, rankVars, orderInsightVars, chartVars, segmentationVars, profilesVars, dateNormalizersVars, payloadVars, salesVars, seedsVars, summariesVars, llmSegmentationVars>>
notDateNormalizers == <<joinVars, httpVars, keyVars, statsVars, variationVars, rankVars, orderInsightVars, chartVars, segmentationVars, profilesVars, feedbacksVars, payloadVars, salesVars, seedsVars, summariesVars, llmSegmentationVars>>
notPayload == <<joinVars, httpVars, keyVars, statsVars, variationVars, rankVars, orderInsightVars, chartVars, segmentationVars, profilesVars, feedbacksVars, dateNormalizersVars, salesVars, seedsVars, summariesVars, llmSegmentationVars>>
notSales == <<joinVars, httpVars, keyVars, statsVars, variationVars, rankVars, orderInsightVars, chartVars, segmentationVars, profilesVars, feedbacksVars, dateNormalizersVars, payloadVars, seedsVars, summariesVars, llmSegmentationVars>>
notSeeds == <<joinVars, httpVars, keyVars, statsVars, variationVars, rankVars, orderInsightVars, chartVars, segmentationVars, profilesVars, feedbacksVars, dateNormalizersVars, payloadVars, salesVars, summariesVars, llmSegmentationVars>>
notSummaries == <<joinVars, httpVars, keyVars, statsVars, variationVars, rankVars, orderInsightVars, chartVars, segmentationVars, profilesVars, feedbacksVars, dateNormalizersVars, payloadVars, salesVars, seedsVars, llmSegmentationVars>>
notLlmSegmentation == <<joinVars, httpVars, keyVars, statsVars, variationVars, rankVars, orderInsightVars, chartVars, segmentationVars, profilesVars, feedbacksVars, dateNormalizersVars, payloadVars, salesVars, seedsVars, summariesVars>>

----------------------------------------------------------------------------
(* Values *)

None == <<>>
Some(v) == <<v>>

NaN == [nan |-> TRUE, v |-> 0]
Num(v) == [nan |-> FALSE, v |-> v]

\* a >= b on JavaScript numbers: false as soon as either side is NaN
NumGe(a, b) == ~a.nan /\ ~b.nan /\ a.v >= b.v

SeqsUpTo(S, n) == UNION {[1..k -> S] : k \in 0..n}

Range(s) == {s[i] : i \in DOMAIN s}

----------------------------------------------------------------------------
(* Dates *)

IsoDateStrings == {"2025-11-01", "2025-11-02"}

\* new Date(s).getTime(), in days since 1970-01-01T00:00:00Z
DateGetTime(s) ==
    CASE s = "2025-10-20" -> Num(20381)
      [] s = "2025-10-28" -> Num(20389)
      [] s = "2025-10-29" -> Num(20390)
      [] s = "2025-11-01" -> Num(20393)
      [] s = "2025-11-02" -> Num(20394)
      [] s = "2025-11-03" -> Num(20395)
      [] s = "2025-11-04" -> Num(20396)
      [] s = "2025-11-05" -> Num(20397)
      [] OTHER -> NaN

\* Date.prototype.getUTCDay: 0 is Sunday; 1970-01-01 was a Thursday
getUTCDay(time) == (time + 4) % 7

\* A raw date: DateLike = string | CampaignDateValue | null | undefined in the
\* campaign files, string | DateObject | null | undefined in the order files.
\* An object is {iso} alone, or {iso} tagged _date or _timestamp; str = ""
\* stands for an object without iso.
RawNull == [shape |-> "null", str |-> "", tag |-> ""]
RawStr(s) == [shape |-> "string", str |-> s, tag |-> ""]
RawObj(s) == [shape |-> "object", str |-> s, tag |-> ""]
RawTagged(tag, s) == [shape |-> "object", str |-> s, tag |-> tag]

normalizeDate(date) ==
    IF date.shape = "null" \/ (date.shape = "string" /\ date.str = "") THEN None
    ELSE IF date.shape = "string" THEN Some(date.str)
    ELSE IF date.str # "" THEN Some(date.str)
    ELSE None

\* a || b on nullable strings: null, undefined and "" are falsy
OrElse(a, b) == IF a # None /\ a[1] # "" THEN a ELSE b

----------------------------------------------------------------------------
(* Campaign results and the join *)

MaxResults == 2
MaxCampaigns == 2

CampaignIds == {"c1", "c2"}
\* c9 is a campaign no result refers to
RawCampaignIds == CampaignIds \cup {"c9"}

\* the four date fields of a raw result, as (updated_at, end_timestamp,
\* timestamp, created_at)
RawDateProfiles ==
    { <<RawNull, RawNull, RawNull, RawNull>>,
      <<RawStr("2025-11-01"), RawNull, RawNull, RawStr("2025-11-02")>>,
      <<RawObj("2025-11-02"), RawNull, RawNull, RawNull>>,
      <<RawNull, RawStr("2025-11-02"), RawStr("2025-11-01"), RawNull>>,
      <<RawStr(""), RawNull, RawStr("2025-11-01"), RawNull>>,
      <<RawNull, RawNull, RawNull, RawStr("2025-11-01")>>,
      <<RawStr("not-a-date"), RawNull, RawNull, RawStr("2025-11-01")>> }

RawResultOf(cid, p) ==
    [id |-> 0, campaign_id |-> cid,
     updated_at |-> p[1], end_timestamp |-> p[2],
     timestamp |-> p[3], created_at |-> p[4],
     send_status |-> None, conversion_rate |-> None,
     orders_delivered |-> None, total_order_value |-> None]

RawResultDomain == {RawResultOf(cid, p) : cid \in CampaignIds, p \in RawDateProfiles}

RawCampaignOf(cid) ==
    [id |-> 0, campaign_id |-> cid, status |-> "completed",
     targeting |-> "all", type |-> "promo",
     created_at |-> RawNull, updated_at |-> RawNull]

RawCampaignDomain == {RawCampaignOf(cid) : cid \in RawCampaignIds}

\* every record of a seed file has its own id: its position stands for it
WithIds(list) == [i \in DOMAIN list |-> [list[i] EXCEPT !.id = i]]

mapResult(raw) ==
    [id |-> raw.id,
     campaignId |-> raw.campaign_id,
     sendStatus |-> raw.send_status,
     conversionRate |-> raw.conversion_rate,
     ordersDelivered |-> raw.orders_delivered,
     totalOrderValue |-> raw.total_order_value,
     timestamp |-> normalizeDate(raw.timestamp),
     endTimestamp |-> normalizeDate(raw.end_timestamp),
     createdAt |-> normalizeDate(raw.created_at),
     updatedAt |-> normalizeDate(raw.updated_at)]

\* result is None (no result) or Some(CampaignResult)
getResultTimestamp(result) ==
    IF result = None THEN Num(0)
    ELSE LET r == result[1]
             reference == OrElse(r.updatedAt, OrElse(r.endTimestamp,
                              OrElse(r.timestamp, r.createdAt)))
         IN IF reference # None /\ reference[1] # ""
            THEN DateGetTime(reference[1]) ELSE Num(0)

mapCampaign(raw, result) ==
    [id |-> raw.id,
     campaignId |-> raw.campaign_id,
     createdAt |-> normalizeDate(raw.created_at),
     updatedAt |-> normalizeDate(raw.updated_at),
     status |-> raw.status,
     targeting |-> raw.targeting,
     type |-> raw.type,
     results |-> result]

\* Map.get: None for a key the map does not hold
MapGet(map, key) == IF key \in DOMAIN map THEN Some(map[key]) ELSE None

MapSet(map, key, value) ==
    [k \in DOMAIN map \cup {key} |-> IF k = key THEN value ELSE map[k]]

EmptyMap == [k \in {} |-> None]

\* the resultMap after results.forEach has scanned the first n results
RECURSIVE ScanResults(_, _)
ScanResults(results, n) ==
    IF n = 0 THEN EmptyMap
    ELSE LET resultMap == ScanResults(results, n - 1)
             mapped == mapResult(results[n])
             existing == MapGet(resultMap, mapped.campaignId)
         IN IF existing = None
               \/ NumGe(getResultTimestamp(Some(mapped)), getResultTimestamp(existing))
            THEN MapSet(resultMap, mapped.campaignId, mapped)
            ELSE resultMap

\* a join that filters out the campaigns it finds no result for
getCampaignsWithResults_dropUnmatched(campaigns, results) ==
    LET resultMap == ScanResults(results, Len(results))
        all == [i \in DOMAIN campaigns |->
                   mapCampaign(campaigns[i], MapGet(resultMap, campaigns[i].campaign_id))]
        HasResult(c) == c.results # None
    IN SelectSeq(all, HasResult)

getCampaignsWithResults(campaigns, results) ==
    LET resultMap == ScanResults(results, Len(results))
    IN [i \in DOMAIN campaigns |->
            mapCampaign(campaigns[i], MapGet(resultMap, campaigns[i].campaign_id))]

JoinInit ==
    /\ rawCampaigns \in {WithIds(l) : l \in SeqsUpTo(RawCampaignDomain, MaxCampaigns)}
    /\ rawResults \in {WithIds(l) : l \in SeqsUpTo(RawResultDomain, MaxResults)}
    /\ joined = None

JoinIdle ==
    /\ rawCampaigns = <<>>
    /\ rawResults = <<>>
    /\ joined = None

Join ==
    /\ joined = None
    /\ joined' = Some(getCampaignsWithResults(rawCampaigns, rawResults))
    /\ UNCHANGED <<rawCampaigns, rawResults, notJoin>>

----------------------------------------------------------------------------
(* Fractions and sorting *)

Rat(n, d) == [n |-> n, d |-> d]
RatLt(a, b) == a.n * b.d < b.n * a.d
RatLe(a, b) == a.n * b.d <= b.n * a.d
RatGe(a, b) == RatLe(b, a)
RatEq(a, b) == a.n * b.d = b.n * a.d

\* Array.prototype.sort is stable: an element goes before the first element
\* the comparator puts it strictly before. before[<<a, b>>] says that the
\* comparator's value for (a, b) is negative.
RECURSIVE InsertBy(_, _, _)
InsertBy(sorted, x, before) ==
    IF sorted = <<>> THEN <<x>>
    ELSE IF before[<<x, Head(sorted)>>] THEN <<x>> \o sorted
    ELSE <<Head(sorted)>> \o InsertBy(Tail(sorted), x, before)

RECURSIVE SortPrefix(_, _, _)
SortPrefix(list, n, before) ==
    IF n = 0 THEN <<>>
    ELSE InsertBy(SortPrefix(list, n - 1, before), list[n], before)

StableSort(list, before) == SortPrefix(list, Len(list), before)

Pairs(list) == Range(list) \X Range(list)

----------------------------------------------------------------------------
(* The deterministic campaign insight (server/api/insights.ts) *)

HighRevenueThreshold == 400000
LowConversionMinSent == 80
MinWinnerConversion == Rat(4, 100)
MaxLowConversion == Rat(2, 100)
MediumAverageConversion == Rat(5, 100)

ERROR_INSIGHT == [id |-> <<"insight-unavailable">>, severity |-> "low"]
EMPTY_INSIGHT == [id |-> <<"campaigns-missing-data">>, severity |-> "low"]

toLowerCase(status) ==
    CASE status = "Running" -> "running"
      [] status = "SCHEDULED" -> "scheduled"
      [] OTHER -> status

\* None when the campaign is dropped from the performances
performanceOf(campaign) ==
    LET results == campaign.results
        sendStatus == IF results = None THEN None ELSE results[1].sendStatus
        totalSent == IF sendStatus = None THEN 0 ELSE sendStatus[1].totalCount
        success == IF sendStatus = None THEN 0 ELSE sendStatus[1].successCount
        errors == IF sendStatus = None THEN 0 ELSE sendStatus[1].errorCount
        conversionRate ==
            IF results # None /\ results[1].conversionRate # None
            THEN results[1].conversionRate
            ELSE IF totalSent # 0 THEN Some(Rat(success, totalSent)) ELSE None
        totalOrderValue == IF results = None THEN None ELSE results[1].totalOrderValue
        ordersDelivered == IF results = None THEN None ELSE results[1].ordersDelivered
    IN IF /\ results = None
          /\ totalSent = 0
          /\ (totalOrderValue = None \/ totalOrderValue[1] = 0)
          /\ conversionRate = None
       THEN None
       ELSE Some([campaignId |-> campaign.campaignId,
                  targeting |-> campaign.targeting,
                  status |-> campaign.status,
                  totalSent |-> totalSent,
                  success |-> success,
                  errors |-> errors,
                  conversionRate |-> conversionRate,
                  ordersDelivered |-> ordersDelivered,
                  totalOrderValue |-> totalOrderValue,
                  updatedAt |-> OrElse(IF results = None THEN None ELSE results[1].updatedAt,
                                   OrElse(campaign.updatedAt, campaign.createdAt))])

RECURSIVE collectPrefix(_, _)
collectPrefix(campaigns, n) ==
    IF n = 0 THEN <<>>
    ELSE collectPrefix(campaigns, n - 1) \o performanceOf(campaigns[n])

collectCampaignPerformance(campaigns) == collectPrefix(campaigns, Len(campaigns))

\* x ?? 0 and x ?? 1 on nullable numbers and fractions
OrZero(x) == IF x = None THEN 0 ELSE x[1]
RateOr(x, dflt) == IF x = None THEN dflt ELSE x[1]

\* each rule gives None, or Some(insight)
bestRevenue(performances) ==
    LET HasRevenue(perf) == OrZero(perf.totalOrderValue) > 0
        candidates == SelectSeq(performances, HasRevenue)
        before == [pr \in Pairs(candidates) |->
                      OrZero(pr[2].totalOrderValue) - OrZero(pr[1].totalOrderValue) < 0]
        sorted == StableSort(candidates, before)
    IN IF sorted = <<>> THEN None ELSE Some(sorted[1])

\* a winner rule that wants the conversion strictly above the minimum
revenueWinnerInsight_strictConversion(performances) ==
    LET best == bestRevenue(performances)
    IN IF best # None /\ RatLt(MinWinnerConversion, RateOr(best[1].conversionRate, Rat(0, 1)))
       THEN Some([id |-> <<"campaign", best[1].campaignId, "winner">>,
                  severity |-> IF OrZero(best[1].totalOrderValue) > HighRevenueThreshold
                               THEN "high" ELSE "medium"])
       ELSE None

revenueWinnerInsight(performances) ==
    LET best == bestRevenue(performances)
    IN IF best # None /\ RatGe(RateOr(best[1].conversionRate, Rat(0, 1)), MinWinnerConversion)
       THEN Some([id |-> <<"campaign", best[1].campaignId, "winner">>,
                  severity |-> IF OrZero(best[1].totalOrderValue) > HighRevenueThreshold
                               THEN "high" ELSE "medium"])
       ELSE None

lowConversion(performances) ==
    LET SentEnough(perf) == perf.totalSent >= LowConversionMinSent
        candidates == SelectSeq(performances, SentEnough)
        before == [pr \in Pairs(candidates) |->
                      RatLt(RateOr(pr[1].conversionRate, Rat(1, 1)),
                            RateOr(pr[2].conversionRate, Rat(1, 1)))]
        sorted == StableSort(candidates, before)
    IN IF sorted = <<>> THEN None ELSE Some(sorted[1])

lowConversionInsight(performances) ==
    LET low == lowConversion(performances)
    IN IF low # None /\ RatLe(RateOr(low[1].conversionRate, Rat(0, 1)), MaxLowConversion)
       THEN Some([id |-> <<"campaign", low[1].campaignId, "needs-optimization">>,
                  severity |-> "high"])
       ELSE None

\* Array.prototype.find: the first element that passes
stalledCampaign(performances) ==
    LET Stalled(perf) ==
            /\ perf.totalSent = 0
            /\ toLowerCase(perf.status) \in {"running", "scheduled", "processing"}
        found == SelectSeq(performances, Stalled)
    IN IF found = <<>> THEN None ELSE Some(found[1])

stalledCampaignInsight(performances) ==
    LET stalled == stalledCampaign(performances)
    IN IF stalled # None
       THEN Some([id |-> <<"campaign", stalled[1].campaignId, "inactive">>,
                  severity |-> "medium"])
       ELSE None

RECURSIVE SumOver(_, _, _)
SumOver(list, n, field) ==
    IF n = 0 THEN 0
    ELSE SumOver(list, n - 1, field)
         + (CASE field = "totalSent" -> list[n].totalSent
              [] field = "success" -> list[n].success
              [] field = "revenue" -> OrZero(list[n].totalOrderValue)
              [] field = "orders" -> OrZero(list[n].ordersDelivered))

\* a fallback whose severity is always low
keepIteratingInsight_alwaysLow(performances) ==
    [id |-> <<"campaign-keep-iterating">>, severity |-> "low"]

keepIteratingInsight(performances) ==
    LET totalSent == SumOver(performances, Len(performances), "totalSent")
        success == SumOver(performances, Len(performances), "success")
        avgConversion == IF totalSent # 0 THEN Rat(success, totalSent) ELSE Rat(0, 1)
    IN [id |-> <<"campaign-keep-iterating">>,
        severity |-> IF RatGe(avgConversion, MediumAverageConversion)
                     THEN "medium" ELSE "low"]

buildDeterministicCampaignInsight(campaigns) ==
    LET performances == collectCampaignPerformance(campaigns)
        winner == revenueWinnerInsight(performances)
        low == lowConversionInsight(performances)
        stalled == stalledCampaignInsight(performances)
    IN IF performances = <<>> THEN EMPTY_INSIGHT
       ELSE IF winner # None THEN winner[1]
       ELSE IF low # None THEN low[1]
       ELSE IF stalled # None THEN stalled[1]
       ELSE keepIteratingInsight(performances)

----------------------------------------------------------------------------
(* Campaign summaries and the cache key *)

DefaultSummaryLimit == 300

Min(a, b) == IF a <= b THEN a ELSE b

\* a - b on JavaScript numbers is negative: false as soon as either is NaN
NumLt(a, b) == ~a.nan /\ ~b.nan /\ a.v < b.v

summaryOf(campaign) ==
    LET r == campaign.results[1]
    IN [campaignId |-> campaign.campaignId,
        status |-> campaign.status,
        targeting |-> campaign.targeting,
        type |-> campaign.type,
        updatedAt |-> OrElse(r.updatedAt, OrElse(r.timestamp, campaign.updatedAt)),
        sendStatus |-> r.sendStatus,
        conversionRate |-> r.conversionRate,
        ordersDelivered |-> r.ordersDelivered,
        totalOrderValue |-> r.totalOrderValue]

buildCampaignResultSummaries(campaigns, limit) ==
    LET HasResults(campaign) == campaign.results # None
        withResults == SelectSeq(campaigns, HasResults)
        before == [pr \in Pairs(withResults) |->
                      NumLt(getResultTimestamp(pr[2].results),
                            getResultTimestamp(pr[1].results))]
        sorted == StableSort(withResults, before)
        enriched == SubSeq(sorted, 1, Min(limit, Len(sorted)))
        summaries == [i \in DOMAIN enriched |-> summaryOf(enriched[i])]
        HasValue(summary) == summary.totalOrderValue # None
    IN SelectSeq(summaries, HasValue)

\* String.prototype.localeCompare on the campaign ids of the model
IdRank(id) ==
    CASE id = "c1" -> 1
      [] id = "c2" -> 2
      [] OTHER -> 3

keyDataOf(s) ==
    [id |-> s.campaignId,
     status |-> s.status,
     conversionRate |-> s.conversionRate,
     totalOrderValue |-> s.totalOrderValue,
     ordersDelivered |-> s.ordersDelivered,
     updatedAt |-> s.updatedAt]

\* The key is the SHA-256 of JSON.stringify(keyData): two lists have the same
\* key exactly when their sorted keyData are the same list, so that list
\* stands for the digest.
generateCacheKey(summaries) ==
    LET keyData == [i \in DOMAIN summaries |-> keyDataOf(summaries[i])]
        before == [pr \in Pairs(keyData) |-> IdRank(pr[1].id) < IdRank(pr[2].id)]
    IN StableSort(keyData, before)

----------------------------------------------------------------------------
(* The LLM cache and the campaign insight handler *)

MaxRequests == 2
MaxTicks == 2

MinInsights == 1
MaxInsights == 5
CACHE_TTL_MS == 60 * 60 * 1000

Requests == 1..MaxRequests

\* --- seeds a request may load: joined campaign lists ---

SendStatus(total, success, errors) ==
    Some([totalCount |-> total, successCount |-> success,
          errorCount |-> errors, partialCount |-> 0])

ResultOf(rid, cid, updatedAt, sendStatus, conversionRate, totalOrderValue) ==
    [id |-> rid, campaignId |-> cid, sendStatus |-> sendStatus,
     conversionRate |-> conversionRate, ordersDelivered |-> Some(1),
     totalOrderValue |-> totalOrderValue,
     timestamp |-> None, endTimestamp |-> None, createdAt |-> None,
     updatedAt |-> updatedAt]

CampaignOf(id, cid, status, results) ==
    [id |-> id, campaignId |-> cid, createdAt |-> None, updatedAt |-> None,
     status |-> status, targeting |-> "all", type |-> "promo", results |-> results]

SeedWinner ==
    CampaignOf(1, "c1", "completed",
        Some(ResultOf(1, "c1", Some("2025-11-02"), SendStatus(100, 6, 0),
                      Some(Rat(6, 100)), Some(500000))))
SeedWeak ==
    CampaignOf(2, "c2", "completed",
        Some(ResultOf(2, "c2", Some("2025-11-01"), SendStatus(100, 1, 2),
                      Some(Rat(1, 100)), Some(1000))))
SeedUnsent ==
    CampaignOf(3, "c9", "scheduled", None)

SeedCampaignLists ==
    { <<SeedUnsent>>, <<SeedWeak>>,
      <<SeedWinner, SeedWeak>>, <<SeedWeak, SeedWinner>> }

\* --- what the LLM endpoint may answer ---

LlmInsight(name, severity) == [id |-> <<"llm", name>>, severity |-> severity]

InsightA == LlmInsight("a", "high")
InsightB == LlmInsight("b", "low")
\* severity outside the schema's enum
InsightBad == LlmInsight("c", "urgent")

LlmResponses ==
    { [kind |-> "throw", insights |-> <<>>],        \* $fetch rejects
      [kind |-> "no-content", insights |-> <<>>],   \* no choices[0].message.content
      [kind |-> "unparsable", insights |-> <<>>],   \* JSON.parse throws
      [kind |-> "json", insights |-> <<>>],
      [kind |-> "json", insights |-> <<InsightA>>],
      [kind |-> "json", insights |-> <<InsightB, InsightA>>],
      [kind |-> "json", insights |-> <<InsightA, InsightBad>>],
      [kind |-> "json", insights |-> [i \in 1..(MaxInsights + 1) |-> InsightA]] }

\* insightsArraySchema.parse does not throw; below, first, a schema whose
\* array has no .max(5)
SchemaAccepts_noMaximum(insights) ==
    /\ Len(insights) >= MinInsights
    /\ \A i \in DOMAIN insights : insights[i].severity \in {"low", "medium", "high"}

SchemaAccepts(insights) ==
    /\ Len(insights) >= MinInsights
    /\ Len(insights) <= MaxInsights
    /\ \A i \in DOMAIN insights : insights[i].severity \in {"low", "medium", "high"}

\* --- the cache ---

\* an expiry test that also drops the entry stored exactly one hour ago
getCachedInsights_expireAtTtl(c, cacheKey, t) ==
    LET entry == MapGet(c, cacheKey)
    IN IF entry = None THEN [value |-> None, cache |-> c]
       ELSE IF t - entry[1].timestamp >= CACHE_TTL_MS
            THEN [value |-> None,
                  cache |-> [k \in DOMAIN c \ {cacheKey} |-> c[k]]]
            ELSE [value |-> Some(entry[1].insights), cache |-> c]

\* the value returned and the cache afterwards
getCachedInsights(c, cacheKey, t) ==
    LET entry == MapGet(c, cacheKey)
    IN IF entry = None THEN [value |-> None, cache |-> c]
       ELSE IF t - entry[1].timestamp > CACHE_TTL_MS
            THEN [value |-> None,
                  cache |-> [k \in DOMAIN c \ {cacheKey} |-> c[k]]]
            ELSE [value |-> Some(entry[1].insights), cache |-> c]

setCachedInsights(c, cacheKey, insights, t) ==
    MapSet(c, cacheKey, [insights |-> insights, timestamp |-> t])

\* --- requests ---

\* The response's insight: what `llmInsight ?? buildDeterministicCampaignInsight`
\* evaluates to is either the array the LLM helper returned or one Insight.
ArrayValue(items) == [isArray |-> TRUE, items |-> items]
SingleValue(insight) == [isArray |-> FALSE, items |-> <<insight>>]

\* a ?? b, a being None for null or undefined
Coalesce(a, b) == IF a = None THEN b ELSE a[1]

IdleRequest ==
    [pc |-> "idle", campaigns |-> <<>>, cacheKey |-> None,
     path |-> "", insight |-> None]

\* line 177 of the handler, with what requestCampaignInsightFromLLM returned
respond(r, llmInsight, path) ==
    [r EXCEPT !.pc = "done", !.path = path,
              !.insight = Some(Coalesce(llmInsight,
                              SingleValue(buildDeterministicCampaignInsight(r.campaigns))))]

HttpInit ==
    /\ cache = EmptyMap
    /\ now = 0
    /\ ticks = 0
    /\ llmConfigured \in BOOLEAN
    /\ req = [r \in Requests |-> IdleRequest]

HttpIdle ==
    /\ cache = EmptyMap
    /\ now = 0
    /\ ticks = 0
    /\ llmConfigured = FALSE
    /\ req = <<>>

\* the seeds cannot be loaded: getCampaignsWithResults rejects, the handler's
\* catch answers ERROR_INSIGHT
LoadFails(r) ==
    /\ req[r].pc = "idle"
    /\ req' = [req EXCEPT ![r] = [@ EXCEPT !.pc = "done", !.path = "load-error",
                                          !.insight = Some(SingleValue(ERROR_INSIGHT))]]
    /\ UNCHANGED <<cache, now, ticks, llmConfigured, notHttp>>

\* the seeds are loaded: the handler runs up to its next await, which is the
\* $fetch of the LLM, or to its end when no request is sent
Handle(r, campaigns) ==
    /\ req[r].pc = "idle"
    /\ LET summaries == buildCampaignResultSummaries(campaigns, DefaultSummaryLimit)
           cacheKey == generateCacheKey(summaries)
           looked == getCachedInsights(cache, cacheKey, now)
           started == [req[r] EXCEPT !.campaigns = campaigns]
       IN IF summaries = <<>>
          THEN /\ req' = [req EXCEPT ![r] =
                            respond(started, Some(ArrayValue(<<>>)), "no-summaries")]
               /\ cache' = cache
          ELSE /\ cache' = looked.cache
               /\ req' = [req EXCEPT ![r] =
                    IF looked.value # None
                    THEN respond([started EXCEPT !.cacheKey = Some(cacheKey)],
                                 Some(ArrayValue(looked.value[1])), "cached")
                    ELSE IF ~llmConfigured
                    THEN respond([started EXCEPT !.cacheKey = Some(cacheKey)],
                                 Some(ArrayValue(<<>>)), "not-configured")
                    ELSE [started EXCEPT !.pc = "awaiting",
                                         !.cacheKey = Some(cacheKey)]]
    /\ UNCHANGED <<now, ticks, llmConfigured, notHttp>>

\* the $fetch settles and the handler runs to its end
LlmAnswers(r, response) ==
    /\ req[r].pc = "awaiting"
    /\ LET ok == response.kind = "json" /\ SchemaAccepts(response.insights)
       IN /\ cache' = IF ok
                      THEN setCachedInsights(cache, req[r].cacheKey[1],
                                             response.insights, now)
                      ELSE cache
          /\ req' = [req EXCEPT ![r] =
                IF ok
                THEN respond(req[r], Some(ArrayValue(response.insights)), "llm")
                ELSE respond(req[r], Some(ArrayValue(<<>>)),
                             CASE response.kind = "throw" -> "llm-failed"
                               [] response.kind = "no-content" -> "llm-empty"
                               [] response.kind = "unparsable" -> "llm-invalid"
                               [] OTHER -> "llm-invalid")]
    /\ UNCHANGED <<now, ticks, llmConfigured, notHttp>>

\* time passes: a millisecond, or one hour
Tick(ms) ==
    /\ ticks < MaxTicks
    /\ now' = now + ms
    /\ ticks' = ticks + 1
    /\ UNCHANGED <<cache, llmConfigured, req, notHttp>>

----------------------------------------------------------------------------
(* generateCacheKey on a list and on its permutations *)

MaxSummaries == 3

SummaryOf(cid, status) ==
    [campaignId |-> cid, status |-> status, targeting |-> "all", type |-> "promo",
     updatedAt |-> Some("2025-11-01"), sendStatus |-> None,
     conversionRate |-> Some(Rat(6, 100)), ordersDelivered |-> Some(1),
     totalOrderValue |-> Some(1000)]

SummaryDomain == {SummaryOf(cid, status) : cid \in CampaignIds,
                                            status \in {"completed", "running"}}

KeyInit ==
    /\ summariesIn \in SeqsUpTo(SummaryDomain, MaxSummaries)
    /\ summariesPerm = summariesIn
    /\ keys = None

KeyIdle ==
    /\ summariesIn = <<>>
    /\ summariesPerm = <<>>
    /\ keys = None

\* the caller hands over the same summaries with two neighbours exchanged
Exchange(i) ==
    /\ keys = None
    /\ i \in 1..(Len(summariesPerm) - 1)
    /\ summariesPerm' = [summariesPerm EXCEPT ![i] = summariesPerm[i + 1],
                                              ![i + 1] = summariesPerm[i]]
    /\ UNCHANGED <<summariesIn, keys, notKey>>

ComputeKeys ==
    /\ keys = None
    /\ keys' = Some(<<generateCacheKey(summariesIn), generateCacheKey(summariesPerm)>>)
    /\ UNCHANGED <<summariesIn, summariesPerm, notKey>>

----------------------------------------------------------------------------
(* The stats handler (server/api/stats.ts) *)

MaxOrders == 2
MaxAmount == 150

NumLe(a, b) == ~a.nan /\ ~b.nan /\ a.v <= b.v

\* None for null, else Some(the Date's time), NaN for an Invalid Date
parseDate(dateStr) ==
    IF dateStr.shape = "null" \/ (dateStr.shape = "string" /\ dateStr.str = "") THEN None
    ELSE IF dateStr.shape = "string" THEN Some(DateGetTime(dateStr.str))
    ELSE IF dateStr.tag = "_date" /\ dateStr.str # "" THEN Some(DateGetTime(dateStr.str))
    ELSE IF dateStr.tag = "_timestamp" /\ dateStr.str # "" THEN Some(DateGetTime(dateStr.str))
    ELSE None

isDateInRange(date, start, end) ==
    IF date = None THEN FALSE
    ELSE NumGe(date[1], start) /\ NumLe(date[1], end)

\* Math.round of the quotient n / d, d > 0. The code computes the quotient in
\* binary floating point: a value exactly halfway between two integers may
\* reach Math.round just below or just above the half (((63 - 40) / 40) * 100
\* is 57.49999999999999), so either neighbour can come out; any other value
\* rounds to its nearest integer.
MathRound(n, d) ==
    IF (2 * n) % (2 * d) = d
    THEN {(2 * n - d) \div (2 * d), (2 * n + d) \div (2 * d)}
    ELSE {(2 * n + d) \div (2 * d)}

\* a variation that drops the fraction instead of rounding
calculateVariation_floors(current, previous) ==
    IF previous = 0 THEN {IF current > 0 THEN 100 ELSE 0}
    ELSE {(100 * (current - previous)) \div previous}

\* the values calculateVariation can return
calculateVariation(current, previous) ==
    IF previous = 0 THEN {IF current > 0 THEN 100 ELSE 0}
    ELSE MathRound(100 * (current - previous), previous)

OrderDateStrings == {"2025-11-01", "2025-11-02", "2025-11-03", "2025-11-04"}
QueryDateStrings == {"2025-11-02", "2025-11-03", "2025-11-04"}

OrderOf(createdAt, status, totalPrice) ==
    [createdAt |-> createdAt, status |-> status, totalPrice |-> totalPrice]

OrderDomain ==
    {OrderOf(createdAt, sp[1], sp[2]) :
        createdAt \in {RawStr(d) : d \in OrderDateStrings}
                      \cup {RawNull, RawStr("not-a-date"), RawTagged("_date", "2025-11-03")},
        sp \in {<<"delivered", Some(100)>>, <<"cancelled", Some(40)>>}}

\* new Date(query.rangeStart): None when the parameter is absent
QueryDate(param) == IF param = None THEN None ELSE Some(DateGetTime(param[1]))

RECURSIVE revenueOfPrefix(_, _)
revenueOfPrefix(list, n) ==
    IF n = 0 THEN 0
    ELSE revenueOfPrefix(list, n - 1)
         + (IF list[n].status = "delivered" THEN OrZero(list[n].totalPrice) ELSE 0)

\* .filter(o => o.status === 'delivered').reduce((sum, o) => sum + (o.totalPrice || 0), 0)
revenueOf(list) == revenueOfPrefix(list, Len(list))

\* orders.filter(order => isDateInRange(parseDate(order.createdAt), start, end))
ordersInRange(list, start, end) ==
    LET InRange(order) == isDateInRange(parseDate(order.createdAt), start, end)
    IN SelectSeq(list, InRange)

\* lines 116-123: the orders of the previous window
previousOrdersOf(list, rangeStart, rangeEnd) ==
    LET rangeSize == rangeEnd.v - rangeStart.v
        previousRangeStart ==
            IF rangeStart.nan \/ rangeEnd.nan THEN NaN ELSE Num(rangeStart.v - rangeSize)
        previousRangeEnd == rangeStart
    IN ordersInRange(list, previousRangeStart, previousRangeEnd)

StatsInit ==
    /\ orders \in SeqsUpTo(OrderDomain, MaxOrders)
    /\ query \in [rangeStart : {None} \cup {Some(d) : d \in QueryDateStrings \cup {"not-a-date"}},
                  rangeEnd : {None} \cup {Some(d) : d \in QueryDateStrings}]
    /\ stats = None

StatsIdle ==
    /\ orders = <<>>
    /\ query = [rangeStart |-> None, rangeEnd |-> None]
    /\ stats = None

\* the handler, its seeds loaded; the customers and conversions stats, which
\* read other files and compare a count with itself, are left out
Stats ==
    /\ stats = None
    /\ LET rangeStart == QueryDate(query.rangeStart)
           rangeEnd == QueryDate(query.rangeEnd)
           ranged == rangeStart # None /\ rangeEnd # None
           filteredOrders ==
               IF ranged THEN ordersInRange(orders, rangeStart[1], rangeEnd[1]) ELSE orders
           revenue == revenueOf(filteredOrders)
           ordersCount == Len(filteredOrders)
           previousFilteredOrders ==
               IF ranged THEN previousOrdersOf(orders, rangeStart[1], rangeEnd[1]) ELSE <<>>
           previousRevenue ==
               IF ranged THEN revenueOf(previousFilteredOrders) ELSE revenue
           previousOrders ==
               IF ranged THEN Len(previousFilteredOrders) ELSE ordersCount
       IN \E revenueVariation \in calculateVariation(revenue, previousRevenue) :
          \E ordersVariation \in calculateVariation(ordersCount, previousOrders) :
             stats' = Some([revenue |-> revenue,
                            ordersCount |-> ordersCount,
                            previousRevenue |-> previousRevenue,
                            previousOrders |-> previousOrders,
                            revenueVariation |-> revenueVariation,
                            ordersVariation |-> ordersVariation])
    /\ UNCHANGED <<orders, query, notStats>>

VariationInit ==
    /\ variationArgs \in (0..MaxAmount) \X (0..MaxAmount)
    /\ variationOut = None

VariationIdle ==
    /\ variationArgs = <<0, 0>>
    /\ variationOut = None

Variation ==
    /\ variationOut = None
    /\ \E v \in calculateVariation(variationArgs[1], variationArgs[2]) :
          variationOut' = Some(v)
    /\ UNCHANGED <<variationArgs, notVariation>>

----------------------------------------------------------------------------
(* buildDeterministicCampaignInsight on lists of campaigns *)

MaxRankCampaigns == 2

CampaignIdAt(i) == CASE i = 1 -> "c1" [] i = 2 -> "c2" [] OTHER -> "c3"

\* what a joined campaign may carry: no result, or a result with these fields
RankProfiles ==
    {[status |-> st, results |-> None] : st \in {"completed", "scheduled"}}
    \cup {[status |-> st,
           results |-> Some([sendStatus |-> ss, conversionRate |-> None,
                             totalOrderValue |-> None])] :
            st \in {"scheduled", "SCHEDULED"}, ss \in {None, SendStatus(0, 0, 0)}}
    \cup {[status |-> "completed",
           results |-> Some([sendStatus |-> SendStatus(100, 6, 0), conversionRate |-> None,
                             totalOrderValue |-> None])]}
    \cup {[status |-> "completed",
           results |-> Some([sendStatus |-> ss, conversionRate |-> cr,
                             totalOrderValue |-> tov])] :
            ss \in {None, SendStatus(100, 4, 0), SendStatus(100, 1, 0)},
            cr \in {None, Some(Rat(3, 100)), Some(Rat(4, 100)), Some(Rat(6, 100))},
            tov \in {None, Some(0), Some(400000), Some(500000)}}

RankCampaignAt(i, profile) ==
    CampaignOf(i, CampaignIdAt(i), profile.status,
        IF profile.results = None THEN None
        ELSE Some(ResultOf(i, CampaignIdAt(i), Some("2025-11-01"),
                           profile.results[1].sendStatus,
                           profile.results[1].conversionRate,
                           profile.results[1].totalOrderValue)))

RankInit ==
    /\ rankCampaigns \in
          {[i \in DOMAIN profiles |-> RankCampaignAt(i, profiles[i])] :
              profiles \in SeqsUpTo(RankProfiles, MaxRankCampaigns)}
    /\ rankInsight = None

RankIdle ==
    /\ rankCampaigns = <<>>
    /\ rankInsight = None

Rank ==
    /\ rankInsight = None
    /\ rankInsight' = Some(buildDeterministicCampaignInsight(rankCampaigns))
    /\ UNCHANGED <<rankCampaigns, notRank>>

----------------------------------------------------------------------------
(* The order insight handler (server/api/insights.ts) *)

MaxInsightOrders == 3

CANCELLED_STATUSES == {"cancelled", "canceled", "rejected"}
MinWeeklyDrop == Rat(-1, 10)
HighDropPercent == 20
MinCancelRate == Rat(15, 100)
HighCancelRate == Rat(25, 100)
LowTicket == 7000
LowTicketScore == Rat(4, 10)
WeekdayGapScore == Rat(3, 10)

subtractDays(date, days) == IF date.nan THEN NaN ELSE Num(date.v - days)

\* the orders whose createdAt parses to a Date, valid or not
RECURSIVE normalizePrefix(_, _)
normalizePrefix(rawOrders, n) ==
    IF n = 0 THEN <<>>
    ELSE LET order == rawOrders[n]
             createdAtDate == parseDate(order.createdAt)
         IN normalizePrefix(rawOrders, n - 1)
            \o (IF createdAtDate = None THEN <<>>
                ELSE <<[status |-> order.status, totalPrice |-> order.totalPrice,
                        createdAtDate |-> createdAtDate[1]]>>)

normalizeOrders(rawOrders) == normalizePrefix(rawOrders, Len(rawOrders))

\* the reduce from new Date(0): the latest valid date, the epoch if none
RECURSIVE referenceDate(_, _)
referenceDate(list, n) ==
    IF n = 0 THEN Num(0)
    ELSE LET latest == referenceDate(list, n - 1)
         IN IF NumLt(latest, list[n].createdAtDate) THEN list[n].createdAtDate ELSE latest

RECURSIVE deliveredRevenueUpTo(_, _)
deliveredRevenueUpTo(list, n) ==
    IF n = 0 THEN 0
    ELSE deliveredRevenueUpTo(list, n - 1)
         + (IF list[n].status = "delivered" THEN OrZero(list[n].totalPrice) ELSE 0)

deliveredRevenue(list) == deliveredRevenueUpTo(list, Len(list))

deliveredCount(list) ==
    LET Delivered(order) == order.status = "delivered"
    IN Len(SelectSeq(list, Delivered))

cancellationCount(list) ==
    LET Cancelled(order) == toLowerCase(order.status) \in CANCELLED_STATUSES
    IN Len(SelectSeq(list, Cancelled))

\* entries for all seven weekdays, 0 for a weekday without orders
RECURSIVE weekdayEntries_allWeekdays(_, _)
weekdayEntries_allWeekdays(list, upTo) ==
    IF upTo < 0 THEN <<>>
    ELSE LET OnDay(order) == getUTCDay(order.createdAtDate.v) = upTo
         IN weekdayEntries_allWeekdays(list, upTo - 1)
            \o <<<<upTo, deliveredCount(SelectSeq(list, OnDay))>>>>

\* Object.entries(ordersByWeekday): <<weekday, delivered orders>> for each
\* weekday an order of the list falls on, in ascending weekday
RECURSIVE weekdayEntries(_, _)
weekdayEntries(list, upTo) ==
    IF upTo < 0 THEN <<>>
    ELSE LET OnDay(order) == getUTCDay(order.createdAtDate.v) = upTo
             onDay == SelectSeq(list, OnDay)
         IN weekdayEntries(list, upTo - 1)
            \o (IF onDay = <<>> THEN <<>> ELSE <<<<upTo, deliveredCount(onDay)>>>>)

\* the candidates pushed, in order; dropPercent is what Math.round gave
orderCandidates(normalizedOrders, effectiveNow, dropPercent) ==
    LET last7Start == subtractDays(effectiveNow, 7)
        prev7Start == subtractDays(effectiveNow, 14)
        last30Start == subtractDays(effectiveNow, 30)
        InLast7(o) == NumGe(o.createdAtDate, last7Start) /\ NumLe(o.createdAtDate, effectiveNow)
        InPrevious7(o) == NumGe(o.createdAtDate, prev7Start) /\ NumLt(o.createdAtDate, last7Start)
        InLast30(o) == NumGe(o.createdAtDate, last30Start) /\ NumLe(o.createdAtDate, effectiveNow)
        last30Orders == SelectSeq(normalizedOrders, InLast30)
        revenueLast7 == deliveredRevenue(SelectSeq(normalizedOrders, InLast7))
        revenuePrevious7 == deliveredRevenue(SelectSeq(normalizedOrders, InPrevious7))
        deliveredLast30 == deliveredCount(last30Orders)
        revenueLast30 == deliveredRevenue(last30Orders)
        cancelledLast30 == cancellationCount(last30Orders)
        cancelRate == IF Len(last30Orders) # 0
                      THEN Rat(cancelledLast30, Len(last30Orders)) ELSE Rat(0, 1)
        avgTicket == IF deliveredLast30 # 0
                     THEN Rat(revenueLast30, deliveredLast30) ELSE Rat(0, 1)
        weeklyDrop ==
            IF revenuePrevious7 > 0
               /\ RatLe(Rat(revenueLast7 - revenuePrevious7, revenuePrevious7), MinWeeklyDrop)
            THEN <<[id |-> <<"weekly-revenue-drop">>,
                    severity |-> IF dropPercent > HighDropPercent THEN "high" ELSE "medium",
                    score |-> Rat(revenuePrevious7 - revenueLast7, revenuePrevious7)]>>
            ELSE <<>>
        highCancel ==
            IF RatGe(cancelRate, MinCancelRate)
            THEN <<[id |-> <<"high-cancel-rate">>,
                    severity |-> IF RatLt(HighCancelRate, cancelRate) THEN "high" ELSE "medium",
                    score |-> cancelRate]>>
            ELSE <<>>
        lowTicket ==
            IF RatLt(Rat(0, 1), avgTicket) /\ RatLt(avgTicket, Rat(LowTicket, 1))
            THEN <<[id |-> <<"low-ticket">>, severity |-> "medium",
                    score |-> LowTicketScore]>>
            ELSE <<>>
        entries == weekdayEntries(last30Orders, 6)
        byCount == [pr \in Pairs(entries) |-> pr[2][2] - pr[1][2] < 0]
        weekdays == StableSort(entries, byCount)
        weekdayGap ==
            IF Len(last30Orders) > 0 /\ Len(weekdays) > 1
               /\ 10 * weekdays[1][2] > 14 * weekdays[Len(weekdays)][2]
            THEN <<[id |-> <<"weekday-gap">>, severity |-> "low",
                    score |-> WeekdayGapScore]>>
            ELSE <<>>
    IN weeklyDrop \o highCancel \o lowTicket \o weekdayGap

fallbackInsight == [id |-> <<"consistent-growth">>, severity |-> "low", score |-> Rat(0, 1)]

\* a selection that takes the first candidate pushed
winningInsight_firstPushed(candidates) ==
    IF candidates # <<>> THEN candidates[1] ELSE fallbackInsight

\* candidates.sort((a, b) => b.score - a.score)[0], or the fallback
winningInsight(candidates) ==
    IF candidates # <<>>
    THEN LET byScore == [pr \in Pairs(candidates) |-> RatLt(pr[2].score, pr[1].score)]
         IN StableSort(candidates, byScore)[1]
    ELSE fallbackInsight

\* Math.round(Math.abs(weeklyDelta) * 100), 0 where the handler computes none
dropPercents(normalizedOrders, effectiveNow) ==
    LET last7Start == subtractDays(effectiveNow, 7)
        prev7Start == subtractDays(effectiveNow, 14)
        InLast7(o) == NumGe(o.createdAtDate, last7Start) /\ NumLe(o.createdAtDate, effectiveNow)
        InPrevious7(o) == NumGe(o.createdAtDate, prev7Start) /\ NumLt(o.createdAtDate, last7Start)
        revenueLast7 == deliveredRevenue(SelectSeq(normalizedOrders, InLast7))
        revenuePrevious7 == deliveredRevenue(SelectSeq(normalizedOrders, InPrevious7))
    IN IF revenuePrevious7 > 0 /\ revenueLast7 <= revenuePrevious7
       THEN MathRound(100 * (revenuePrevious7 - revenueLast7), revenuePrevious7)
       ELSE {0}

InsightOrderDates == {"2025-11-05", "2025-10-29", "2025-10-28", "2025-10-20"}
\* the wall clock, read when no order has a valid date
InsightToday == 20400

InsightOrderDomain ==
    {OrderOf(RawStr(d), "delivered", Some(price)) :
        d \in InsightOrderDates, price \in {5000, 3000, 9000, 3990}}
    \cup {OrderOf(RawStr(d), "cancelled", Some(5000)) : d \in InsightOrderDates}
    \cup {OrderOf(RawStr("not-a-date"), "delivered", Some(5000)),
          OrderOf(RawNull, "delivered", Some(5000))}

OrderInsightInit ==
    /\ insightOrders \in SeqsUpTo(InsightOrderDomain, MaxInsightOrders)
    /\ orderInsight = None

OrderInsightIdle ==
    /\ insightOrders = <<>>
    /\ orderInsight = None

\* the handler, its orders loaded
OrderInsights ==
    /\ orderInsight = None
    /\ LET normalizedOrders == normalizeOrders(insightOrders)
           reference == referenceDate(normalizedOrders, Len(normalizedOrders))
           effectiveNow == IF reference.v # 0 THEN reference ELSE Num(InsightToday)
       IN \E dropPercent \in dropPercents(normalizedOrders, effectiveNow) :
             orderInsight' =
                 Some(winningInsight(orderCandidates(normalizedOrders, effectiveNow, dropPercent)))
    /\ UNCHANGED <<insightOrders, notOrderInsight>>

----------------------------------------------------------------------------
(* The revenue chart (app/components/home/HomeChart.client.vue) *)

\* Chart times are hours since 1970-01-01T00:00:00Z, the local zone being UTC.

MaxSales == 2

HoursPerDay == 24
DaysPerWeek == 7

At(day, hour) == day * HoursPerDay + hour

\* date-fns startOfDay, startOfWeek, startOfMonth
startOfDay(time) == time - (time % HoursPerDay)

startOfWeek(time, weekStartsOn) ==
    LET day == time \div HoursPerDay
        diff == (getUTCDay(day) - weekStartsOn + DaysPerWeek) % DaysPerWeek
    IN (day - diff) * HoursPerDay

\* the first days of 2025-10, 2025-11 and 2025-12, in days since 1970-01-01
MonthStarts == {20362, 20393, 20423}

startOfMonth(time) ==
    LET starts == {m \in MonthStarts : At(m, 0) <= time}
    IN At(CHOOSE m \in starts : \A other \in starts : other <= m, 0)

normalizeDateOfPeriod(date, period) ==
    CASE period = "daily" -> startOfDay(date)
      [] period = "weekly" -> startOfWeek(date, 1)
      [] period = "monthly" -> startOfMonth(date)
      [] OTHER -> startOfDay(date)

\* from the first date, one date every step hours while the date is <= last
RECURSIVE EveryFrom(_, _, _)
EveryFrom(first, step, last) ==
    IF first > last THEN <<>>
    ELSE <<first>> \o EveryFrom(first + step, step, last)

\* date-fns eachDayOfInterval: the start of each day from the start's day
eachDayOfInterval(range) == EveryFrom(startOfDay(range.start), HoursPerDay, range.end)

\* date-fns eachWeekOfInterval, weeks starting on Sunday as no option is given
eachWeekOfInterval(range) ==
    EveryFrom(startOfWeek(range.start, 0), DaysPerWeek * HoursPerDay,
              startOfWeek(range.end, 0))

RECURSIVE Ascending(_)
Ascending(S) ==
    IF S = {} THEN <<>>
    ELSE LET least == CHOOSE x \in S : \A y \in S : x <= y
         IN <<least>> \o Ascending(S \ {least})

\* date-fns eachMonthOfInterval: the first day of each month from the start's
eachMonthOfInterval(range) ==
    Ascending({At(m, 0) : m \in {n \in MonthStarts :
                  startOfMonth(range.start) <= At(n, 0) /\ At(n, 0) <= range.end}})

datesOfPeriod(period, range) ==
    CASE period = "daily" -> eachDayOfInterval(range)
      [] period = "weekly" -> eachWeekOfInterval(range)
      [] period = "monthly" -> eachMonthOfInterval(range)

\* Date.prototype.toISOString of a valid date
toISOString(time) == <<"iso", time>>

\* a filter that keeps every sale
paidSales_anyStatus(sales) == sales

paidSales(sales) ==
    LET Paid(sale) == sale.status = "paid"
    IN SelectSeq(sales, Paid)

\* groupedData after the first n paid sales were added
RECURSIVE groupedData(_, _, _)
groupedData(keys0, paid, n) ==
    IF n = 0 THEN keys0
    ELSE LET grouped == groupedData(keys0, paid, n - 1)
             key == toISOString(normalizeDateOfPeriod(paid[n].date, chartPeriod))
         IN IF key \in DOMAIN grouped
            THEN [grouped EXCEPT ![key] = @ + paid[n].amount]
            ELSE grouped

\* the watch callback's value for data.value
groupSales(sales, period, range) ==
    LET dates == datesOfPeriod(period, range)
    IN IF Len(sales) = 0
       THEN [i \in DOMAIN dates |-> [date |-> dates[i], amount |-> 0]]
       ELSE LET paid == paidSales(sales)
                zeroes == [key \in {toISOString(normalizeDateOfPeriod(dates[i], period)) :
                                       i \in DOMAIN dates} |-> 0]
                grouped == groupedData(zeroes, paid, Len(paid))
            IN [i \in DOMAIN dates |->
                   LET normalized == normalizeDateOfPeriod(dates[i], period)
                   IN [date |-> normalized, amount |-> grouped[toISOString(normalized)]]]

ChartRanges ==
    {range \in [start : {At(20390, 12), At(20393, 0), At(20395, 0)},
                end : {At(20393, 0), At(20395, 12), At(20397, 0)}] :
        range.start <= range.end}

SaleDomain ==
    [date : {At(20388, 0), At(20391, 12), At(20394, 12), At(20395, 9), At(20398, 0)},
     status : {"paid"}, amount : {100, 50}]
    \cup [date : {At(20388, 0), At(20391, 12), At(20394, 12), At(20395, 9), At(20398, 0)},
          status : {"refunded"}, amount : {999}]

ChartInit ==
    /\ chartPeriod \in {"daily", "weekly", "monthly"}
    /\ chartRange \in ChartRanges
    /\ chartSales \in SeqsUpTo(SaleDomain, MaxSales)
    /\ chartData = None

ChartIdle ==
    /\ chartPeriod = "daily"
    /\ chartRange = [start |-> 0, end |-> 0]
    /\ chartSales = <<>>
    /\ chartData = None

\* the watch callback, run once the sales are fetched
GroupSales ==
    /\ chartData = None
    /\ chartData' = Some(groupSales(chartSales, chartPeriod, chartRange))
    /\ UNCHANGED <<chartPeriod, chartRange, chartSales, notChart>>

-----------------------------------------------------------------------------
(* The fallback customer segmentation
   (server/utils/customerSegmentation.ts) *)

MaxProfiles == 3
LargeAudience == 201

\* A CustomerFeedbackProfile, less its categories and comments (they only feed
\* the signal texts): averageRating is a fraction, lastFeedbackAt None or
\* Some(a date string).
Profile(id, totalFeedbacks, averageRating, lastFeedbackAt) ==
    [storeConsumerId |-> id, totalFeedbacks |-> totalFeedbacks,
     averageRating |-> averageRating, lastFeedbackAt |-> lastFeedbackAt]

\* A coverage text `${count} cliente${suffix} (${percentage}% dos perfis
\* recentes)` is <<count, suffix, percentage>>; the fixed texts are 1-tuples.
\* The percentage is a Math.round of a floating-point quotient, so the result
\* is the set of texts the call can return.
formatCoverage(count, total) ==
    IF total = 0 THEN {<<"Nenhum cliente com feedback recente">>}
    ELSE {<<count, IF count = 1 THEN "" ELSE "s", percentage>> :
            percentage \in MathRound(100 * count, total)}

\* '0 clientes (0% dos perfis recentes)'
ZeroCoverage == <<0, "s", 0>>

\* the segments buildSegment can return (one per coverage text); name,
\* description, signals and recommendedActions are fixed or derived texts
buildSegment(id, audience, total, priority) ==
    {[id |-> id, coverage |-> coverage, priority |-> priority,
      memberIds |-> [i \in DOMAIN audience |-> audience[i].storeConsumerId]] :
        coverage \in formatCoverage(Len(audience), total)}

PromoterRating == Rat(4, 1)
NeutralRating == Rat(5, 2)

promoters(profiles) ==
    LET test(profile) == RatGe(profile.averageRating, PromoterRating)
    IN  SelectSeq(profiles, test)

\* the neutral cohort; before it, one that also takes the profiles at exactly 4
neutrals_inclusiveTop(profiles) ==
    LET test(profile) == /\ RatGe(profile.averageRating, NeutralRating)
                         /\ RatLe(profile.averageRating, PromoterRating)
    IN  SelectSeq(profiles, test)
neutrals(profiles) ==
    LET test(profile) == /\ RatGe(profile.averageRating, NeutralRating)
                         /\ RatLt(profile.averageRating, PromoterRating)
    IN  SelectSeq(profiles, test)

detractors(profiles) ==
    LET test(profile) == RatLt(profile.averageRating, NeutralRating)
    IN  SelectSeq(profiles, test)

\* the filter applied to the three built segments; before it, a filter that
\* drops every segment whose share rounds to 0%
segmentKept_byPercentage(segment) == segment.coverage[3] # 0
segmentKept(segment) == segment.coverage # ZeroCoverage

CollectFeedbackSegment ==
    [id |-> "collect-feedback", coverage |-> <<"0 clientes com feedback recente">>,
     priority |-> "media", memberIds |-> <<>>]

\* The payloads buildFallbackSegmentation can return. The summary keeps what
\* varies in its text: the number of profiles and the detractors' coverage.
buildFallbackSegmentation(profiles) ==
    LET total == Len(profiles)
    IN  IF total = 0
        THEN {[summary |-> <<"Ainda nao recebemos feedbacks suficientes">>,
               segments |-> <<CollectFeedbackSegment>>]}
        ELSE {[summary |-> <<total, IF Len(detractors(profiles)) # 0
                                    THEN Some(d.coverage) ELSE None>>,
               segments |-> SelectSeq(<<p, n, d>>, segmentKept)] :
                p \in buildSegment("promoters", promoters(profiles), total, "media"),
                n \in buildSegment("neutral", neutrals(profiles), total, "media"),
                d \in buildSegment("detractors", detractors(profiles), total, "alta")}

\* averageRating values around the two thresholds
SegmentationRatings ==
    {Rat(1, 1), Rat(7, 3), Rat(5, 2), Rat(11, 3), Rat(4, 1), Rat(14, 3)}

\* profiles as buildCustomerFeedbackProfiles returns them: one per customer
ProfileListOf(ratings) ==
    [i \in DOMAIN ratings |-> Profile(i, 1, ratings[i], None)]

\* one detractor among many promoters: a share that rounds to 0%
LargeProfileList ==
    [i \in 1..LargeAudience |->
        Profile(i, 1, IF i = 1 THEN Rat(1, 1) ELSE Rat(5, 1), None)]

SegmentationInit ==
    /\ segProfiles \in {ProfileListOf(ratings) :
                            ratings \in SeqsUpTo(SegmentationRatings, MaxProfiles)}
                       \cup {LargeProfileList}
    /\ segmentation = None

SegmentationIdle ==
    /\ segProfiles = <<>>
    /\ segmentation = None

Segment ==
    /\ segmentation = None
    /\ \E payload \in buildFallbackSegmentation(segProfiles) :
            segmentation' = Some(payload)
    /\ UNCHANGED <<segProfiles, notSegmentation>>

-----------------------------------------------------------------------------
(* buildCustomerFeedbackProfiles (server/utils/customerSegmentation.ts) *)

MaxFeedbacks == 3
DefaultProfileLimit == 180

\* A Feedback as far as the profiles read it: rating is a number or NaN,
\* updatedAt and createdAt are None or Some(a string).
FeedbackOf(id, rating, updatedAt, createdAt) ==
    [storeConsumerId |-> id, rating |-> rating,
     updatedAt |-> updatedAt, createdAt |-> createdAt]

\* clampRating of this file; before it, one that lets every finite rating through
clampRating_unclamped(value) == IF value.nan THEN 0 ELSE value.v
clampRating(value) ==
    IF value.nan THEN 0
    ELSE IF value.v > 5 THEN 5
    ELSE IF value.v < 0 THEN 0
    ELSE value.v

\* a ?? b
Nullish(a, b) == IF a # None THEN a ELSE b

\* !value for a string | null
Falsy(value) == value = None \/ value = Some("")

updateLastFeedback(current, candidate) ==
    IF Falsy(candidate) THEN current
    ELSE IF Falsy(current) THEN candidate
    ELSE IF NumLt(DateGetTime(current[1]), DateGetTime(candidate[1]))
         THEN candidate
         ELSE current

\* the loop body: the accumulators, in the Map's insertion order, after one
\* more feedback (category totals and sample comments are not kept)
accumulate(accumulators, feedback) ==
    LET known == {k \in DOMAIN accumulators :
                    accumulators[k].id = feedback.storeConsumerId}
        profile == IF known = {}
                   THEN [id |-> feedback.storeConsumerId, ratingSum |-> 0,
                         totalFeedbacks |-> 0, lastFeedbackAt |-> None]
                   ELSE accumulators[CHOOSE k \in known : TRUE]
        updated == [id |-> profile.id,
                    ratingSum |-> profile.ratingSum + clampRating(feedback.rating),
                    totalFeedbacks |-> profile.totalFeedbacks + 1,
                    lastFeedbackAt |->
                        updateLastFeedback(profile.lastFeedbackAt,
                            Nullish(feedback.updatedAt, feedback.createdAt))]
    IN  IF known = {} THEN Append(accumulators, updated)
        ELSE [k \in DOMAIN accumulators |->
                IF k \in known THEN updated ELSE accumulators[k]]

RECURSIVE accumulateAll(_, _)
accumulateAll(feedbacks, n) ==
    IF n = 0 THEN <<>>
    ELSE accumulate(accumulateAll(feedbacks, n - 1), feedbacks[n])

\* timeA / timeB of the sort's comparator
lastFeedbackTime(profile) ==
    IF Falsy(profile.lastFeedbackAt) THEN Num(0)
    ELSE DateGetTime(profile.lastFeedbackAt[1])

Reorderings(list) ==
    {[k \in DOMAIN list |-> list[order[k]]] :
        order \in {f \in [DOMAIN list -> DOMAIN list] :
                    \A i, j \in DOMAIN list : i # j => f[i] # f[j]}}

\* The orders the sort can leave: the comparator is timeB - timeA, negative
\* when a is the later one. A NaN time makes it inconsistent (NaN counts as
\* equal to everything), and the order is then the engine's choice.
sortedByLastFeedback(accumulators) ==
    IF \E k \in DOMAIN accumulators : lastFeedbackTime(accumulators[k]).nan
    THEN Reorderings(accumulators)
    ELSE {StableSort(accumulators,
            [pair \in Pairs(accumulators) |->
                NumLt(lastFeedbackTime(pair[2]), lastFeedbackTime(pair[1]))])}

\* slice(0, limit), limit >= 0
sliceTo(list, limit) == SubSeq(list, 1, Min(limit, Len(list)))

toProfile(accumulator) ==
    Profile(accumulator.id, accumulator.totalFeedbacks,
            IF accumulator.totalFeedbacks # 0
            THEN Rat(accumulator.ratingSum, accumulator.totalFeedbacks)
            ELSE Rat(0, 1),
            accumulator.lastFeedbackAt)

\* the profile lists buildCustomerFeedbackProfiles can return
buildCustomerFeedbackProfiles(feedbacks, limit) ==
    {[k \in DOMAIN sliceTo(sorted, limit) |-> toProfile(sorted[k])] :
        sorted \in sortedByLastFeedback(accumulateAll(feedbacks, Len(feedbacks)))}

ProfileCustomers == {"A", "B"}

\* ratings inside, above and outside the numbers
ProfileRatings == {Num(1), Num(4), Num(5), Num(7), NaN}

\* <<updatedAt, createdAt>>: neither, either, both, and an unparseable one
ProfileDates ==
    {<<None, None>>, <<None, Some("2025-11-02")>>,
     <<Some("2025-11-01"), Some("2025-11-02")>>,
     <<Some("2025-11-03"), None>>, <<Some("not-a-date"), None>>}

ProfileFeedbackDomain ==
    {FeedbackOf(id, rating, None, Some("2025-11-02")) :
        id \in ProfileCustomers, rating \in ProfileRatings}
    \cup {FeedbackOf(id, Num(5), dates[1], dates[2]) :
            id \in ProfileCustomers, dates \in ProfileDates}

ProfilesInit ==
    /\ profileFeedbacks \in SeqsUpTo(ProfileFeedbackDomain, MaxFeedbacks)
    /\ profileLimit \in {1, DefaultProfileLimit}
    /\ profilesBuilt = None

ProfilesIdle ==
    /\ profileFeedbacks = <<>>
    /\ profileLimit = DefaultProfileLimit
    /\ profilesBuilt = None

BuildProfiles ==
    /\ profilesBuilt = None
    /\ \E built \in buildCustomerFeedbackProfiles(profileFeedbacks, profileLimit) :
            profilesBuilt' = Some(built)
    /\ UNCHANGED <<profileFeedbacks, profileLimit, notProfiles>>

-----------------------------------------------------------------------------
(* The feedback normalizers: getFeedbacks (server/utils/feedbacks.ts) and the
   feedbacks handler (server/api/insights.ts, third handler) *)

MaxRawFeedbacks == 2

\* A raw JSON value in a rating field: its typeof and, for a number, its value.
RawNumber(v) == [type |-> "number", num |-> Num(v)]
RawNaN == [type |-> "number", num |-> NaN]
RawNullRating == [type |-> "null", num |-> Num(0)]
RawMissing == [type |-> "undefined", num |-> Num(0)]
RawText(s) == [type |-> "string", num |-> Num(0), text |-> s]

\* clampRating of server/utils/feedbacks.ts
clampRatingOfFeedbacks(rating) ==
    IF rating.type # "number" \/ rating.num.nan THEN RawNumber(0)
    ELSE RawNumber(Min(5, IF rating.num.v >= 1 THEN rating.num.v ELSE 1))

\* parseDate of both files: value?.iso ?? null, value None when missing
parseFeedbackDate(value) == IF value = None THEN None ELSE value[1].iso

\* entry.category || 'sem-categoria'
categoryOf(entry) == IF entry.category = "" THEN "sem-categoria" ELSE entry.category

\* mapFeedback of server/utils/feedbacks.ts (ids and the comment are copied)
mapFeedback(entry) ==
    [storeConsumerId |-> entry.store_consumer_id,
     category |-> categoryOf(entry),
     rating |-> clampRatingOfFeedbacks(entry.rating),
     createdAt |-> parseFeedbackDate(entry.created_at),
     updatedAt |-> parseFeedbackDate(entry.updated_at)]

\* mapFeedback of the handler: rating is entry.rating ?? 0
mapFeedbackOfHandler(entry) ==
    [storeConsumerId |-> entry.store_consumer_id,
     category |-> categoryOf(entry),
     rating |-> IF entry.rating.type \in {"null", "undefined"}
                THEN RawNumber(0) ELSE entry.rating,
     createdAt |-> parseFeedbackDate(entry.created_at),
     updatedAt |-> parseFeedbackDate(entry.updated_at)]

\* raw ratings: below 1, inside 1..5, above 5, NaN, null, missing, a string
RawRatings ==
    {RawNumber(v) : v \in {-1, 0, 1, 3, 5, 7}}
    \cup {RawNaN, RawNullRating, RawMissing, RawText("cinco")}

RawFeedbackDomain ==
    [store_consumer_id : {"A"}, category : {"", "entrega"}, rating : RawRatings,
     created_at : {None, Some([iso |-> Some("2025-11-02")])},
     updated_at : {None}]

FeedbacksInit ==
    /\ rawFeedbacks \in SeqsUpTo(RawFeedbackDomain, MaxRawFeedbacks)
    /\ feedbackRecords = None

FeedbacksIdle ==
    /\ rawFeedbacks = <<>>
    /\ feedbackRecords = None

\* getFeedbacks: the loaded entries, mapped
GetFeedbacks ==
    /\ feedbackRecords = None
    /\ feedbackRecords' = Some([i \in DOMAIN rawFeedbacks |-> mapFeedback(rawFeedbacks[i])])
    /\ UNCHANGED <<rawFeedbacks, notFeedbacks>>

\* the handler: the loaded entries, mapped
HandleFeedbacks ==
    /\ feedbackRecords = None
    /\ feedbackRecords' = Some([i \in DOMAIN rawFeedbacks |-> mapFeedbackOfHandler(rawFeedbacks[i])])
    /\ UNCHANGED <<rawFeedbacks, notFeedbacks>>

\* the handler when loadJson throws: the catch returns []
HandleFeedbacksFails ==
    /\ feedbackRecords = None
    /\ feedbackRecords' = Some(<<>>)
    /\ UNCHANGED <<rawFeedbacks, notFeedbacks>>

-----------------------------------------------------------------------------
(* The server date normalizers on their own: normalizeDate
   (server/utils/campaigns.ts) and parseDate (server/api/stats.ts,
   server/api/sales.ts, server/api/insights.ts) *)

MaxRawDates == 2

RawDateStrings == {"", "2025-11-01", "2025-11-02", "not-a-date"}

\* null, strings, objects with or without iso, untagged or tagged
RawDateDomain ==
    {RawNull}
    \cup {RawStr(s) : s \in RawDateStrings}
    \cup {RawObj(s) : s \in RawDateStrings}
    \cup {RawTagged(tag, s) : tag \in {"_date", "_timestamp"}, s \in RawDateStrings}

DateNormalizersInit ==
    /\ rawDates \in SeqsUpTo(RawDateDomain, MaxRawDates)
    /\ normalizedDates = None

DateNormalizersIdle ==
    /\ rawDates = <<>>
    /\ normalizedDates = None

\* normalizeDate on each raw date
NormalizeDates ==
    /\ normalizedDates = None
    /\ normalizedDates' =
        Some([i \in DOMAIN rawDates |->
                [by |-> "normalizeDate", date |-> normalizeDate(rawDates[i])]])
    /\ UNCHANGED <<rawDates, notDateNormalizers>>

\* parseDate on each raw date
ParseDates ==
    /\ normalizedDates = None
    /\ normalizedDates' =
        Some([i \in DOMAIN rawDates |->
                [by |-> "parseDate", date |-> parseDate(rawDates[i])]])
    /\ UNCHANGED <<rawDates, notDateNormalizers>>

-----------------------------------------------------------------------------
(* parsePayload (server/utils/campaigns.ts) *)

MaxPayloadItems == 2

\* JSON values. A string is either JText(v), the JSON text of the value v
\* (what JSON.stringify(v) returns and JSON.parse reads back), or JStr(s), a
\* text s that is not JSON.
JValue(kind, str, num, items) == [kind |-> kind, str |-> str, num |-> num, items |-> items]
JNull == JValue("null", "", 0, <<>>)
JUndefined == JValue("undefined", "", 0, <<>>)
JNumber(n) == JValue("number", "", n, <<>>)
JObject == JValue("object", "", 0, <<>>)
JStr(s) == JValue("string", s, 0, <<>>)
JText(value) == JValue("text", "", 0, <<value>>)
JArray(items) == JValue("array", "", 0, items)

\* typeof value === 'string'
IsString(value) == value.kind \in {"string", "text"}

\* !value
IsFalsy(value) ==
    \/ value.kind \in {"null", "undefined"}
    \/ value = JStr("")
    \/ value = JNumber(0)

\* JSON.parse: Some(the value), None when it throws
JsonParse(string) == IF string.kind = "text" THEN Some(string.items[1]) ELSE None

JsonStringify(value) == JText(value)

\* item => (typeof item === 'string' ? item : JSON.stringify(item))
stringifyItems(items) ==
    [i \in DOMAIN items |->
        IF IsString(items[i]) THEN items[i] ELSE JsonStringify(items[i])]

\* parsePayload; before it, one that never reads a string as JSON
parsePayload_noParse(payload) ==
    IF IsFalsy(payload) THEN <<>>
    ELSE IF payload.kind = "array" THEN stringifyItems(payload.items)
    ELSE IF IsString(payload) THEN <<payload>>
    ELSE <<JsonStringify(payload)>>
parsePayload(payload) ==
    IF IsFalsy(payload) THEN <<>>
    ELSE IF payload.kind = "array" THEN stringifyItems(payload.items)
    ELSE IF IsString(payload)
    THEN LET parsed == JsonParse(payload)
         IN  IF parsed # None /\ parsed[1].kind = "array"
             THEN stringifyItems(parsed[1].items)
             ELSE IF parsed # None /\ IsString(parsed[1]) THEN <<parsed[1]>>
             ELSE <<payload>>
    ELSE <<JsonStringify(payload)>>

PayloadItems == {JStr("a"), JStr("b"), JNumber(5), JNull, JObject}

PayloadArrays == {JArray(items) : items \in SeqsUpTo(PayloadItems, MaxPayloadItems)}

\* null, absent, arrays, JSON texts of arrays, of a string and of other
\* values, texts that are not JSON, and the shapes outside the declared type
PayloadDomain ==
    {JNull, JUndefined, JNumber(0), JNumber(7), JObject}
    \cup PayloadArrays
    \cup {JText(array) : array \in PayloadArrays}
    \cup {JText(JStr("x")), JText(JNumber(5)), JText(JNull), JText(JObject)}
    \cup {JStr("plain"), JStr(""), JStr("[oops")}

PayloadInit ==
    /\ rawPayload \in PayloadDomain
    /\ payloadOut = None

PayloadIdle ==
    /\ rawPayload = JNull
    /\ payloadOut = None

ParsePayload ==
    /\ payloadOut = None
    /\ payloadOut' = Some(parsePayload(rawPayload))
    /\ UNCHANGED <<rawPayload, notPayload>>

-----------------------------------------------------------------------------
(* The sales handler (server/api/sales.ts) *)

MaxSalesOrders == 2
\* the wall clock, read for an order without a date
SalesToday == 20400

\* an order of the sales file: id None when it has neither id nor code
SalesOrderOf(id, createdAt, status, totalPrice) ==
    [id |-> id, createdAt |-> createdAt, status |-> status, totalPrice |-> totalPrice]

\* mapOrderStatus(order.status || 'created')
mapOrderStatus(orderStatus) ==
    LET status == IF orderStatus = None \/ orderStatus = Some("") THEN "created"
                  ELSE orderStatus[1]
    IN  IF status \in {"delivered", "confirmed", "in_transit"} THEN "paid"
        ELSE IF status \in {"rejected", "cancelled"} THEN "failed"
        ELSE IF status = "refunded" THEN "refunded"
        ELSE "paid"

\* orderDate?.toISOString() throws a RangeError on an Invalid Date
saleThrows(order) ==
    LET orderDate == parseDate(order.createdAt)
    IN  orderDate # None /\ orderDate[1].nan

\* the Sale of an order whose date is null or valid; the amount is in reais,
\* a fraction of the price in centavos
saleOf(order) ==
    LET orderDate == parseDate(order.createdAt)
    IN  [id |-> IF order.id # None THEN order.id[1] ELSE "unknown",
         date |-> IF orderDate # None THEN toISOString(orderDate[1].v)
                  ELSE toISOString(SalesToday),
         status |-> mapOrderStatus(order.status),
         amount |-> Rat(OrZero(order.totalPrice), 100)]

\* new Date(sale.date).getTime()
saleTime(sale) == sale.date[2]

\* the try block, the orders loaded
salesOf(ordersArray, rangeStart, rangeEnd) ==
    LET filteredOrders ==
            IF rangeStart # None /\ rangeEnd # None
            THEN ordersInRange(ordersArray, rangeStart[1], rangeEnd[1])
            ELSE ordersArray
    IN  IF \E i \in DOMAIN filteredOrders : saleThrows(filteredOrders[i])
        THEN None
        ELSE LET mapped == [i \in DOMAIN filteredOrders |-> saleOf(filteredOrders[i])]
             IN  Some(StableSort(mapped,
                    [pair \in Pairs(mapped) |-> saleTime(pair[1]) > saleTime(pair[2])]))

SalesOrderDates ==
    {RawStr("2025-11-01"), RawStr("2025-11-03"), RawTagged("_date", "2025-11-02"),
     RawStr("not-a-date"), RawObj("2025-11-02"), RawNull}

SalesOrderDomain ==
    {SalesOrderOf(None, createdAt, status, Some(1000)) :
        createdAt \in SalesOrderDates,
        status \in {Some("delivered"), Some("confirmed"), Some("cancelled"), Some("refunded")}}
    \cup {SalesOrderOf(None, RawStr("2025-11-03"), None, None)}

\* every order has its own id: its position stands for it
SalesOrdersWithIds(list) == [i \in DOMAIN list |-> [list[i] EXCEPT !.id = Some(i)]]

SalesInit ==
    /\ salesOrders \in {SalesOrdersWithIds(list) :
                            list \in SeqsUpTo(SalesOrderDomain, MaxSalesOrders)}
    /\ salesQuery \in {[rangeStart |-> None, rangeEnd |-> None],
                       [rangeStart |-> Some("2025-11-02"), rangeEnd |-> None],
                       [rangeStart |-> Some("2025-11-01"), rangeEnd |-> Some("2025-11-02")],
                       [rangeStart |-> Some("2025-11-02"), rangeEnd |-> Some("2025-11-04")]}
    /\ salesLoad \in {"returns", "throws"}
    /\ salesOut = None

SalesIdle ==
    /\ salesOrders = <<>>
    /\ salesQuery = [rangeStart |-> None, rangeEnd |-> None]
    /\ salesLoad = "returns"
    /\ salesOut = None

\* the handler: an exception from the load or from the mapping is caught and
\* answered with []
Sales ==
    /\ salesOut = None
    /\ LET result == salesOf(salesOrders, QueryDate(salesQuery.rangeStart),
                             QueryDate(salesQuery.rangeEnd))
       IN  salesOut' = IF salesLoad = "throws" \/ result = None THEN Some(<<>>)
                       ELSE result
    /\ UNCHANGED <<salesOrders, salesQuery, salesLoad, notSales>>

-----------------------------------------------------------------------------
(* loadSeedsData (server/utils/loadSeedsData.ts) and the handlers' answer
   when it throws *)

\* Seed data: a JSON array of records, an object wrapping one under `orders`,
\* another object, or null. items are the records' ids.
SeedData(shape, items) == [shape |-> shape, items |-> items]

\* how a call ends: Returned(value) or Thrown
Returned(value) == [ended |-> "returned", value |-> value]
Thrown == [ended |-> "thrown", value |-> SeedData("null", <<>>)]

\* the transform the order handlers pass:
\* Array.isArray(obj) ? obj : (obj.orders || []); reading .orders of null throws
ordersTransform(data) ==
    CASE data.shape = "array" -> Returned(data)
      [] data.shape = "wrapped" -> Returned(SeedData("array", data.items))
      [] data.shape = "object" -> Returned(SeedData("array", <<>>))
      [] OTHER -> Thrown

\* transform ? transform(data) : data
applyTransform(transform, data) ==
    IF transform = None THEN Returned(data) ELSE ordersTransform(data)

\* the remote attempt: Some(result) when it returns, None when it falls
\* through to the local file
remoteAttempt(baseUrl, remote, transform) ==
    IF baseUrl = None THEN None
    ELSE IF remote.answer # "ok" THEN None
    ELSE LET result == applyTransform(transform, remote.data)
         IN  IF result.ended = "returned" /\ result.value.shape # "null"
             THEN Some(result.value)
             ELSE None

\* loadSeedsData; before it, one that also transforms the local file
loadSeedsData_transformsLocal(baseUrl, remote, local, transform) ==
    LET fromRemote == remoteAttempt(baseUrl, remote, transform)
    IN  IF fromRemote # None THEN Returned(fromRemote[1])
        ELSE IF local.file = "ok" THEN applyTransform(transform, local.data)
        ELSE Thrown
loadSeedsData(baseUrl, remote, local, transform) ==
    LET fromRemote == remoteAttempt(baseUrl, remote, transform)
    IN  IF fromRemote # None THEN Returned(fromRemote[1])
        ELSE IF local.file = "ok" THEN Returned(local.data)
        ELSE Thrown

\* fetch rejects, the response is not ok, its body is not JSON, or it is data
RemoteAnswers ==
    {[answer |-> a, data |-> SeedData("null", <<>>)] :
        a \in {"fetch-throws", "not-ok", "json-throws"}}
    \cup {[answer |-> "ok", data |-> d] :
            d \in {SeedData("array", <<1>>), SeedData("wrapped", <<1>>),
                   SeedData("object", <<>>), SeedData("null", <<>>)}}

\* the file cannot be read, is not JSON, or is data
LocalFiles ==
    {[file |-> f, data |-> SeedData("null", <<>>)] : f \in {"unreadable", "unparsable"}}
    \cup {[file |-> "ok", data |-> d] :
            d \in {SeedData("array", <<1, 2>>), SeedData("wrapped", <<1, 2>>)}}

\* the handlers that load seeds through loadSeedsData
Handlers ==
    {"stats", "sales", "feedbacks", "campaigns", "insights",
     "customer-segmentation", "campaign-assistant", "feedback-assistant"}

\* the handlers that check the request body before loading
BodyHandlers == {"customer-segmentation", "campaign-assistant", "feedback-assistant"}

\* What the client receives once the load has ended. A handler with the load
\* inside try returns its catch block's value when the load throws; the three
\* body handlers await the load outside any try, so the exception leaves the
\* handler. "served" stands for the answer computed from loaded data.
respondTo(handler, bodyValid, loaded) ==
    IF handler \in BodyHandlers /\ ~bodyValid THEN "error-400"
    ELSE IF loaded.ended = "returned" THEN "served"
    ELSE CASE handler = "stats" -> "zeroed-stats"
           [] handler \in {"sales", "feedbacks", "campaigns"} -> "empty-list"
           [] handler = "insights" -> "error-insight"
           [] OTHER -> "exception"

SeedsInit ==
    /\ seedBaseUrl \in {None, Some("https://seeds")}
    /\ seedRemote \in RemoteAnswers
    /\ seedLocal \in LocalFiles
    /\ seedTransform \in {None, Some("orders")}
    /\ seedLoaded = None
    /\ handlerCalled \in Handlers
    /\ handlerBodyValid \in BOOLEAN
    /\ handlerResponse = None

SeedsIdle ==
    /\ seedBaseUrl = None
    /\ seedRemote = [answer |-> "not-ok", data |-> SeedData("null", <<>>)]
    /\ seedLocal = [file |-> "ok", data |-> SeedData("array", <<1, 2>>)]
    /\ seedTransform = None
    /\ seedLoaded = None
    /\ handlerCalled = "stats"
    /\ handlerBodyValid = TRUE
    /\ handlerResponse = None

\* the body handlers reject an invalid body before they load anything
RejectBody ==
    /\ handlerResponse = None
    /\ seedLoaded = None
    /\ handlerCalled \in BodyHandlers
    /\ ~handlerBodyValid
    /\ handlerResponse' = Some(respondTo(handlerCalled, handlerBodyValid, Thrown))
    /\ UNCHANGED <<seedBaseUrl, seedRemote, seedLocal, seedTransform, seedLoaded,
                   handlerCalled, handlerBodyValid, notSeeds>>

LoadSeeds ==
    /\ handlerResponse = None
    /\ seedLoaded = None
    /\ handlerCalled \in BodyHandlers => handlerBodyValid
    /\ seedLoaded' = Some(loadSeedsData(seedBaseUrl, seedRemote, seedLocal, seedTransform))
    /\ UNCHANGED <<seedBaseUrl, seedRemote, seedLocal, seedTransform,
                   handlerCalled, handlerBodyValid, handlerResponse, notSeeds>>

Respond ==
    /\ handlerResponse = None
    /\ seedLoaded # None
    /\ handlerResponse' = Some(respondTo(handlerCalled, handlerBodyValid, seedLoaded[1]))
    /\ UNCHANGED <<seedBaseUrl, seedRemote, seedLocal, seedTransform, seedLoaded,
                   handlerCalled, handlerBodyValid, notSeeds>>

-----------------------------------------------------------------------------
(* buildCampaignResultSummaries with a limit *)

MaxSummaryCampaigns == 3

SummaryResultDates == {"2025-11-01", "2025-11-02", "2025-11-03"}

\* a joined campaign, its result (if any) last updated on a day, with or
\* without a total order value
SummaryCampaignOf(n, result) ==
    CampaignOf(n, "c1", "completed", result)

SummaryResults ==
    {None} \cup
    { Some(ResultOf(1, "c1", Some(day), SendStatus(100, 6, 0), Some(Rat(6, 100)), value)) :
        day \in SummaryResultDates, value \in {None, Some(1000)} }

\* the lists of at most MaxSummaryCampaigns campaigns, numbered by position
SummaryCampaignLists ==
    { [i \in DOMAIN results |-> SummaryCampaignOf(i, results[i])] :
        results \in SeqsUpTo(SummaryResults, MaxSummaryCampaigns) }

SummariesInit ==
    /\ summaryArgs \in [campaigns : SummaryCampaignLists, limit : 0..MaxSummaryCampaigns]
    /\ summaryCampaigns = summaryArgs.campaigns
    /\ summaryOut = None

SummariesIdle ==
    /\ summaryArgs = [campaigns |-> <<>>, limit |-> 0]
    /\ summaryCampaigns = <<>>
    /\ summaryOut = None

\* the call; Array.prototype.sort runs on the array .filter returned, so the
\* argument keeps its elements and their order
BuildSummaries ==
    /\ summaryOut = None
    /\ summaryOut' = Some(buildCampaignResultSummaries(summaryCampaigns, summaryArgs.limit))
    /\ summaryCampaigns' = summaryCampaigns
    /\ UNCHANGED <<summaryArgs, notSummaries>>

-----------------------------------------------------------------------------
(* requestCustomerSegmentationFromLLM and the customer-segmentation handler
   (server/utils/customerSegmentation.ts) *)

\* 80 in the source; the member lists of the model are shorter
MAX_LLM_MEMBER_IDS == 2
MinLlmSegments == 3
MaxLlmSegments == 5

\* String(id).trim() on the ids of the model
StringTrim(id) ==
    CASE id = " u1" -> "u1"
      [] id = "u2 " -> "u2"
      [] id = " " -> ""
      [] OTHER -> id

\* a segment of the LLM's answer: its texts stand in `id`, priority is the
\* one field with an enum
LlmSegment(id, priority, memberIds) ==
    [id |-> id, priority |-> priority, memberIds |-> memberIds]

\* RESPONSE_SEGMENT_SCHEMA accepts the segment
SegmentSchemaAccepts(segment) ==
    /\ segment.priority \in {"alta", "media", "baixa"}
    /\ Len(segment.memberIds) >= 1
    /\ Len(segment.memberIds) <= MAX_LLM_MEMBER_IDS
    /\ \A i \in DOMAIN segment.memberIds : segment.memberIds[i] # ""

\* RESPONSE_SCHEMA.safeParse succeeds
ResponseSchemaAccepts(segments) ==
    /\ Len(segments) >= MinLlmSegments
    /\ Len(segments) <= MaxLlmSegments
    /\ \A i \in DOMAIN segments : SegmentSchemaAccepts(segments[i])

\* the loop of sanitizeMemberIds over ids[1..n]
RECURSIVE sanitizePrefix(_, _, _)
sanitizePrefix(ids, n, validIds) ==
    IF n = 0 THEN <<>>
    ELSE LET result == sanitizePrefix(ids, n - 1, validIds)
             normalized == StringTrim(ids[n])
         IN IF Len(result) >= MAX_LLM_MEMBER_IDS THEN result
            ELSE IF normalized = "" \/ normalized \notin validIds
                    \/ normalized \in Range(result)
            THEN result
            ELSE Append(result, normalized)

\* sanitizeMemberIds; before it, one that keeps the ids no profile has
sanitizeMemberIds_anyId(ids, validIds) ==
    sanitizePrefix(ids, Len(ids), validIds \cup {StringTrim(ids[i]) : i \in DOMAIN ids})

sanitizeMemberIds(ids, validIds) ==
    sanitizePrefix(ids, Len(ids), validIds)

\* the segments of a schema-valid answer, sanitized, the memberless dropped
sanitizedSegments(segments, profiles) ==
    LET validIds == {profiles[i].storeConsumerId : i \in DOMAIN profiles}
        mapped == [i \in DOMAIN segments |->
                     [segments[i] EXCEPT
                        !.memberIds = sanitizeMemberIds(segments[i].memberIds, validIds)]]
    IN SelectSeq(mapped, LAMBDA segment : Len(segment.memberIds) # 0)

\* --- inputs ---

LlmProfileLists ==
    { <<>>,
      <<Profile("u1", 1, Rat(5, 1), None)>>,
      <<Profile("u1", 1, Rat(5, 1), None), Profile("u2", 1, Rat(1, 1), None)>>,
      <<Profile(" u1", 1, Rat(3, 1), None), Profile("u2", 1, Rat(1, 1), None)>> }

LlmMemberIdLists ==
    { <<>>, <<"u1">>, <<" u1", "u1">>, <<"u2 ", "zz">>, <<" ", "u2">>, <<"zz">>,
      [i \in 1..(MAX_LLM_MEMBER_IDS + 1) |-> "u1"] }

\* what the endpoint may answer: a failure, or JSON with 2 or 3 segments
LlmSegmentationAnswers ==
    { [kind |-> kind, segments |-> <<>>] : kind \in {"throw", "no-content", "unparsable"} }
    \cup
    { [kind |-> "json",
       segments |-> [i \in DOMAIN members |->
                        LlmSegment(i, IF i = 1 /\ badPriority THEN "urgente" ELSE "alta",
                                   members[i])]] :
        members \in [1..(MinLlmSegments - 1) -> LlmMemberIdLists]
                    \cup [1..MinLlmSegments -> LlmMemberIdLists],
        badPriority \in BOOLEAN }

LlmSegmentationInit ==
    /\ llmProfiles \in LlmProfileLists
    /\ llmSegConfigured \in BOOLEAN
    /\ llmSegPc = "idle"
    /\ llmAnswer = None
    /\ llmResult = None
    /\ segmentationResponse = None

LlmSegmentationIdle ==
    /\ llmProfiles = <<>>
    /\ llmSegConfigured = FALSE
    /\ llmSegPc = "idle"
    /\ llmAnswer = None
    /\ llmResult = None
    /\ segmentationResponse = None

\* requestCustomerSegmentationFromLLM up to its await: null without profiles
\* or configuration; ensureTokenLimit may throw a 400 that the catch rethrows
RequestSegmentation(promptTooLong) ==
    /\ llmSegPc = "idle"
    /\ llmSegPc' = IF Len(llmProfiles) = 0 \/ ~llmSegConfigured THEN "returned"
                   ELSE IF promptTooLong THEN "thrown"
                   ELSE "awaiting"
    /\ UNCHANGED <<llmProfiles, llmSegConfigured, llmAnswer, llmResult,
                   segmentationResponse, notLlmSegmentation>>

\* the $fetch settles and the function runs to its end
SegmentationLlmAnswers(answer) ==
    /\ llmSegPc = "awaiting"
    /\ llmAnswer' = Some(answer)
    /\ llmSegPc' = "returned"
    /\ llmResult' =
          IF answer.kind # "json" \/ ~ResponseSchemaAccepts(answer.segments)
          THEN None
          ELSE LET segments == sanitizedSegments(answer.segments, llmProfiles)
               IN IF Len(segments) = 0 THEN None
                  ELSE Some([summary |-> <<"llm">>, segments |-> segments])
    /\ UNCHANGED <<llmProfiles, llmSegConfigured, segmentationResponse,
                   notLlmSegmentation>>

\* the handler, after the await: llmResult ?? buildFallbackSegmentation(profiles)
ServeSegmentation ==
    /\ llmSegPc = "returned"
    /\ llmSegPc' = "served"
    /\ \E fallback \in buildFallbackSegmentation(llmProfiles) :
          segmentationResponse' =
              Some([source |-> IF llmResult # None THEN "llm" ELSE "fallback",
                    payload |-> Coalesce(llmResult, fallback)])
    /\ UNCHANGED <<llmProfiles, llmSegConfigured, llmAnswer, llmResult,
                   notLlmSegmentation>>

----------------------------------------------------------------------------
(* Specifications *)

InitJoin == JoinInit /\ HttpIdle /\ KeyIdle /\ StatsIdle /\ VariationIdle /\ RankIdle /\ OrderInsightIdle /\ ChartIdle /\ SegmentationIdle /\ ProfilesIdle /\ FeedbacksIdle /\ DateNormalizersIdle /\ PayloadIdle /\ SalesIdle /\ SeedsIdle /\ SummariesIdle /\ LlmSegmentationIdle
NextJoin == Join
SpecJoin == InitJoin /\ [][NextJoin]_vars

Init == HttpInit /\ JoinIdle /\ KeyIdle /\ StatsIdle /\ VariationIdle /\ RankIdle /\ OrderInsightIdle /\ ChartIdle /\ SegmentationIdle /\ ProfilesIdle /\ FeedbacksIdle /\ DateNormalizersIdle /\ PayloadIdle /\ SalesIdle /\ SeedsIdle /\ SummariesIdle /\ LlmSegmentationIdle
Next ==
    \/ \E r \in Requests : LoadFails(r)
    \/ \E r \in Requests : \E campaigns \in SeedCampaignLists : Handle(r, campaigns)
    \/ \E r \in Requests : \E response \in LlmResponses : LlmAnswers(r, response)
    \/ \E ms \in {1, CACHE_TTL_MS} : Tick(ms)
Spec == Init /\ [][Next]_vars

InitKey == KeyInit /\ JoinIdle /\ HttpIdle /\ StatsIdle /\ VariationIdle /\ RankIdle /\ OrderInsightIdle /\ ChartIdle /\ SegmentationIdle /\ ProfilesIdle /\ FeedbacksIdle /\ DateNormalizersIdle /\ PayloadIdle /\ SalesIdle /\ SeedsIdle /\ SummariesIdle /\ LlmSegmentationIdle
NextKey ==
    \/ \E i \in 1..MaxSummaries : Exchange(i)
    \/ ComputeKeys
SpecKey == InitKey /\ [][NextKey]_vars

InitStats == StatsInit /\ JoinIdle /\ HttpIdle /\ KeyIdle /\ VariationIdle /\ RankIdle /\ OrderInsightIdle /\ ChartIdle /\ SegmentationIdle /\ ProfilesIdle /\ FeedbacksIdle /\ DateNormalizersIdle /\ PayloadIdle /\ SalesIdle /\ SeedsIdle /\ SummariesIdle /\ LlmSegmentationIdle
NextStats == Stats
SpecStats == InitStats /\ [][NextStats]_vars

InitVariation == VariationInit /\ JoinIdle /\ HttpIdle /\ KeyIdle /\ StatsIdle /\ RankIdle /\ OrderInsightIdle /\ ChartIdle /\ SegmentationIdle /\ ProfilesIdle /\ FeedbacksIdle /\ DateNormalizersIdle /\ PayloadIdle /\ SalesIdle /\ SeedsIdle /\ SummariesIdle /\ LlmSegmentationIdle
NextVariation == Variation
SpecVariation == InitVariation /\ [][NextVariation]_vars

InitOrderInsights ==
    /\ OrderInsightInit
    /\ JoinIdle /\ HttpIdle /\ KeyIdle /\ StatsIdle /\ VariationIdle /\ RankIdle /\ ChartIdle /\ SegmentationIdle /\ ProfilesIdle /\ FeedbacksIdle /\ DateNormalizersIdle /\ PayloadIdle /\ SalesIdle /\ SeedsIdle /\ SummariesIdle /\ LlmSegmentationIdle
NextOrderInsights == OrderInsights
SpecOrderInsights == InitOrderInsights /\ [][NextOrderInsights]_vars

InitChart ==
    /\ ChartInit
    /\ JoinIdle /\ HttpIdle /\ KeyIdle /\ StatsIdle /\ VariationIdle /\ RankIdle /\ OrderInsightIdle /\ SegmentationIdle /\ ProfilesIdle /\ FeedbacksIdle /\ DateNormalizersIdle /\ PayloadIdle /\ SalesIdle /\ SeedsIdle /\ SummariesIdle /\ LlmSegmentationIdle
NextChart == GroupSales
SpecChart == InitChart /\ [][NextChart]_vars

\* either ranker on its inputs, the other on none
InitRankers ==
    /\ JoinIdle /\ HttpIdle /\ KeyIdle /\ StatsIdle /\ VariationIdle /\ ChartIdle /\ SegmentationIdle /\ ProfilesIdle /\ FeedbacksIdle /\ DateNormalizersIdle /\ PayloadIdle /\ SalesIdle /\ SeedsIdle /\ SummariesIdle /\ LlmSegmentationIdle
    /\ \/ RankInit /\ OrderInsightIdle
       \/ RankIdle /\ OrderInsightInit
NextRankers ==
    \/ Rank
    \/ OrderInsights
SpecRankers == InitRankers /\ [][NextRankers]_vars

InitSegmentation ==
    /\ SegmentationInit
    /\ JoinIdle /\ HttpIdle /\ KeyIdle /\ StatsIdle /\ VariationIdle /\ RankIdle /\ OrderInsightIdle /\ ChartIdle /\ ProfilesIdle /\ FeedbacksIdle /\ DateNormalizersIdle /\ PayloadIdle /\ SalesIdle /\ SeedsIdle /\ SummariesIdle /\ LlmSegmentationIdle
NextSegmentation == Segment
SpecSegmentation == InitSegmentation /\ [][NextSegmentation]_vars

InitProfiles ==
    /\ ProfilesInit
    /\ JoinIdle /\ HttpIdle /\ KeyIdle /\ StatsIdle /\ VariationIdle /\ RankIdle /\ OrderInsightIdle /\ ChartIdle /\ SegmentationIdle /\ FeedbacksIdle /\ DateNormalizersIdle /\ PayloadIdle /\ SalesIdle /\ SeedsIdle /\ SummariesIdle /\ LlmSegmentationIdle
NextProfiles == BuildProfiles
SpecProfiles == InitProfiles /\ [][NextProfiles]_vars

InitFeedbacks ==
    /\ FeedbacksInit
    /\ JoinIdle /\ HttpIdle /\ KeyIdle /\ StatsIdle /\ VariationIdle /\ RankIdle /\ OrderInsightIdle /\ ChartIdle /\ SegmentationIdle /\ ProfilesIdle /\ DateNormalizersIdle /\ PayloadIdle /\ SalesIdle /\ SeedsIdle /\ SummariesIdle /\ LlmSegmentationIdle
NextFeedbacks ==
    \/ GetFeedbacks
    \/ HandleFeedbacks
    \/ HandleFeedbacksFails
SpecFeedbacks == InitFeedbacks /\ [][NextFeedbacks]_vars

InitDateNormalizers ==
    /\ DateNormalizersInit
    /\ JoinIdle /\ HttpIdle /\ KeyIdle /\ StatsIdle /\ VariationIdle /\ RankIdle /\ OrderInsightIdle /\ ChartIdle /\ SegmentationIdle /\ ProfilesIdle /\ FeedbacksIdle /\ PayloadIdle /\ SalesIdle /\ SeedsIdle /\ SummariesIdle /\ LlmSegmentationIdle
NextDateNormalizers ==
    \/ NormalizeDates
    \/ ParseDates
SpecDateNormalizers == InitDateNormalizers /\ [][NextDateNormalizers]_vars

InitPayload ==
    /\ PayloadInit
    /\ JoinIdle /\ HttpIdle /\ KeyIdle /\ StatsIdle /\ VariationIdle /\ RankIdle /\ OrderInsightIdle /\ ChartIdle /\ SegmentationIdle /\ ProfilesIdle /\ FeedbacksIdle /\ DateNormalizersIdle /\ SalesIdle /\ SeedsIdle /\ SummariesIdle /\ LlmSegmentationIdle
NextPayload == ParsePayload
SpecPayload == InitPayload /\ [][NextPayload]_vars

InitSales ==
    /\ SalesInit
    /\ JoinIdle /\ HttpIdle /\ KeyIdle /\ StatsIdle /\ VariationIdle /\ RankIdle /\ OrderInsightIdle /\ ChartIdle /\ SegmentationIdle /\ ProfilesIdle /\ FeedbacksIdle /\ DateNormalizersIdle /\ PayloadIdle /\ SeedsIdle /\ SummariesIdle /\ LlmSegmentationIdle
NextSales == Sales
SpecSales == InitSales /\ [][NextSales]_vars

InitSeeds ==
    /\ SeedsInit
    /\ JoinIdle /\ HttpIdle /\ KeyIdle /\ StatsIdle /\ VariationIdle /\ RankIdle /\ OrderInsightIdle /\ ChartIdle /\ SegmentationIdle /\ ProfilesIdle /\ FeedbacksIdle /\ DateNormalizersIdle /\ PayloadIdle /\ SalesIdle /\ SummariesIdle /\ LlmSegmentationIdle
NextSeeds ==
    \/ RejectBody
    \/ LoadSeeds
    \/ Respond
SpecSeeds == InitSeeds /\ [][NextSeeds]_vars

InitSummaries == SummariesInit /\ JoinIdle /\ HttpIdle /\ KeyIdle /\ StatsIdle /\ VariationIdle /\ RankIdle /\ OrderInsightIdle /\ ChartIdle /\ SegmentationIdle /\ ProfilesIdle /\ FeedbacksIdle /\ DateNormalizersIdle /\ PayloadIdle /\ SalesIdle /\ SeedsIdle /\ LlmSegmentationIdle
NextSummaries == BuildSummaries
SpecSummaries == InitSummaries /\ [][NextSummaries]_vars

InitLlmSegmentation == LlmSegmentationInit /\ JoinIdle /\ HttpIdle /\ KeyIdle /\ StatsIdle /\ VariationIdle /\ RankIdle /\ OrderInsightIdle /\ ChartIdle /\ SegmentationIdle /\ ProfilesIdle /\ FeedbacksIdle /\ DateNormalizersIdle /\ PayloadIdle /\ SalesIdle /\ SeedsIdle /\ SummariesIdle
NextLlmSegmentation ==
    \/ \E promptTooLong \in BOOLEAN : RequestSegmentation(promptTooLong)
    \/ \E answer \in LlmSegmentationAnswers : SegmentationLlmAnswers(answer)
    \/ ServeSegmentation
SpecLlmSegmentation == InitLlmSegmentation /\ [][NextLlmSegmentation]_vars

----------------------------------------------------------------------------
(* C2, C3 *)

JoinedList == joined[1]

\* the mapped results in file order
Mapped == [i \in DOMAIN rawResults |-> mapResult(rawResults[i])]

\* the freshness timestamp the claim speaks of: the first present date among
\* updatedAt, endTimestamp, timestamp, createdAt; 0 when there is none or it
\* is no date
Freshness(r) ==
    LET t == getResultTimestamp(Some(r)) IN IF t.nan THEN 0 ELSE t.v

\* the index of the result the claim attaches to campaign id cid
IsFreshest(i, cid) ==
    /\ Mapped[i].campaignId = cid
    /\ \A j \in DOMAIN Mapped :
          Mapped[j].campaignId = cid =>
              \/ Freshness(Mapped[j]) < Freshness(Mapped[i])
              \/ (Freshness(Mapped[j]) = Freshness(Mapped[i]) /\ j <= i)

\* C2: after the join every campaign holds at most one result, the one with
\* the greatest freshness timestamp among the results of its campaignId, the
\* later one in the list on a tie.
C2_FreshestResultAttached ==
    joined # None =>
        \A c \in DOMAIN JoinedList :
            LET res == JoinedList[c].results IN
            /\ Len(res) <= 1
            /\ res # None =>
                  \E i \in DOMAIN Mapped :
                      /\ res[1] = Mapped[i]
                      /\ IsFreshest(i, JoinedList[c].campaignId)

\* C3: the join returns one campaign per raw campaign, in input order; a
\* campaign no result refers to is kept with results = null.
C3_EveryCampaignKept ==
    joined # None =>
        /\ Len(JoinedList) = Len(rawCampaigns)
        /\ \A i \in DOMAIN rawCampaigns :
              /\ JoinedList[i].id = rawCampaigns[i].id
              /\ JoinedList[i].campaignId = rawCampaigns[i].campaign_id
              /\ (JoinedList[i].results = None) <=>
                    (\A j \in DOMAIN rawResults :
                        rawResults[j].campaign_id # rawCampaigns[i].campaign_id)
              /\ JoinedList[i].results # None =>
                    JoinedList[i].results[1].campaignId = rawCampaigns[i].campaign_id

C3_Witness ==
    /\ joined # None
    /\ Len(JoinedList) = 2
    /\ JoinedList[1].results = None
    /\ JoinedList[2].results # None
    /\ Len(rawResults) = 2

----------------------------------------------------------------------------
(* C1, C4, C5, C6 *)

LlmUnavailablePaths ==
    {"no-summaries", "not-configured", "llm-failed", "llm-empty", "llm-invalid"}

\* C1: whenever the LLM cannot supply insights (no summaries, no API url or
\* key, failed request, empty content, invalid response), the handler answers
\* with the one deterministic insight built from the joined campaigns.
C1_DeterministicFallback ==
    \A r \in Requests :
        (req[r].pc = "done" /\ req[r].path \in LlmUnavailablePaths) =>
            req[r].insight =
                Some(SingleValue(buildDeterministicCampaignInsight(req[r].campaigns)))

\* the step in which request r, its seeds loaded, looks the cache up
Lookup(r) ==
    /\ req[r].pc = "idle"
    /\ req'[r].pc # "idle"
    /\ req'[r].path # "load-error"

KeyOf(campaigns) ==
    generateCacheKey(buildCampaignResultSummaries(campaigns, DefaultSummaryLimit))

\* the cache holds an entry for key k stored at most one hour ago
FreshEntry(k) == k \in DOMAIN cache /\ now - cache[k].timestamp <= CACHE_TTL_MS
StaleEntry(k) == k \in DOMAIN cache /\ now - cache[k].timestamp > CACHE_TTL_MS

\* C4: a request whose summaries hash to K gets the cached insights back, with
\* no LLM call, if and only if the cache holds an entry for K stored at most
\* one hour ago; an older entry is deleted by the lookup and the LLM is
\* requested again.
C4_CacheHitIffFresh ==
    [][\A r \in Requests :
          Lookup(r) =>
              LET k == KeyOf(req'[r].campaigns) IN
              /\ FreshEntry(k) =>
                    /\ req'[r].pc = "done"
                    /\ req'[r].insight = Some(ArrayValue(cache[k].insights))
                    /\ cache' = cache
              /\ ~FreshEntry(k) =>
                    /\ req'[r].path # "cached"
                    /\ req'[r].pc = "done" => req'[r].insight = Some(ArrayValue(<<>>))
              /\ StaleEntry(k) =>
                    /\ k \notin DOMAIN cache'
                    /\ req'[r].pc = "awaiting"
      ]_vars

\* a request found the entry of an earlier request's answer expired, deleted
\* it and is asking the LLM again
C4_Witness ==
    \E r1, r2 \in Requests :
        /\ req[r1].path = "llm"
        /\ req[r2].pc = "awaiting"
        /\ req[r2].cacheKey = req[r1].cacheKey
        /\ req[r2].cacheKey[1] \notin DOMAIN cache
        /\ now > CACHE_TTL_MS

\* C5: requests with the same cache key never have two LLM calls in flight:
\* one that arrives while another is awaiting the LLM issues no second call.
C5_OneCallInFlightPerKey ==
    \A r1, r2 \in Requests :
        (r1 # r2 /\ req[r1].pc = "awaiting" /\ req[r2].pc = "awaiting")
            => req[r1].cacheKey # req[r2].cacheKey

\* C6: generateCacheKey gives one key to all the orders of a summary list,
\* also when several summaries share a campaignId and differ elsewhere.
C6_KeyIgnoresOrder ==
    keys # None => keys[1][1] = keys[1][2]

----------------------------------------------------------------------------
(* C7, C8 *)

StatsRange ==
    [start |-> DateGetTime(query.rangeStart[1]), end |-> DateGetTime(query.rangeEnd[1])]

HasRange ==
    /\ query.rangeStart # None
    /\ query.rangeEnd # None
    /\ NumLe(StatsRange.start, StatsRange.end)

\* the time of an order's date, None when it has none
OrderTime(order) ==
    LET date == parseDate(order.createdAt)
    IN IF date = None \/ date[1].nan THEN None ELSE Some(date[1].v)

\* the orders dated in [from, to)
RECURSIVE DatedWithin(_, _, _, _)
DatedWithin(list, n, from, to) ==
    IF n = 0 THEN <<>>
    ELSE DatedWithin(list, n - 1, from, to)
         \o (IF OrderTime(list[n]) # None /\ OrderTime(list[n])[1] >= from
                                         /\ OrderTime(list[n])[1] < to
             THEN <<list[n]>> ELSE <<>>)

\* C7: for start <= end the previous window is [start - (end - start), start):
\* an order dated exactly at start counts in the current window only.
C7_PreviousWindowHalfOpen ==
    (stats # None /\ HasRange) =>
        LET start == StatsRange.start.v
            end == StatsRange.end.v
            previous == DatedWithin(orders, Len(orders), start - (end - start), start)
        IN /\ stats[1].previousOrders = Len(previous)
           /\ stats[1].previousRevenue = revenueOf(previous)

Abs(x) == IF x < 0 THEN -x ELSE x

\* C8: calculateVariation(current, previous) is 0 when both are 0, 100 when
\* previous is 0 and current > 0, otherwise ((current - previous) / previous)
\* * 100 rounded to an integer: the nearest one, which is the only one the
\* formula allows unless the quotient lies exactly halfway between two.
C8_VariationFormula ==
    variationOut # None =>
        LET current == variationArgs[1]
            previous == variationArgs[2]
            v == variationOut[1]
        IN /\ (previous = 0 /\ current = 0) => v = 0
           /\ (previous = 0 /\ current > 0) => v = 100
           /\ previous > 0 => 2 * Abs(v * previous - 100 * (current - previous)) <= previous
           /\ (current = 100 /\ previous = 0) => v = 100
           /\ (current = 150 /\ previous = 100) => v = 50
           /\ (current = 50 /\ previous = 100) => v = -50

C8_Witness ==
    /\ variationArgs = <<50, 100>>
    /\ variationOut = Some(-50)

----------------------------------------------------------------------------
(* C9, C10 *)

\* what the order handler pushed for the loaded orders; the rounding of
\* dropPercent changes a severity, never an id or a score
PushedCandidates ==
    LET normalizedOrders == normalizeOrders(insightOrders)
        reference == referenceDate(normalizedOrders, Len(normalizedOrders))
        effectiveNow == IF reference.v # 0 THEN reference ELSE Num(InsightToday)
    IN orderCandidates(normalizedOrders, effectiveNow, 0)

\* the insights of the campaign rules that fire, in rule order
FiredRules ==
    LET performances == collectCampaignPerformance(rankCampaigns)
        InOrder == <<revenueWinnerInsight(performances),
                     lowConversionInsight(performances),
                     stalledCampaignInsight(performances)>>
    IN IF performances = <<>> THEN <<>>
       ELSE InOrder[1] \o InOrder[2] \o InOrder[3]

HasScore(insight) == "score" \in DOMAIN insight

\* the candidate at position i has the highest score, and is the earliest
\* of those that have it
HighestEarliest(candidates, i) ==
    /\ \A j \in DOMAIN candidates : RatLe(candidates[j].score, candidates[i].score)
    /\ \A j \in 1..(i - 1) : RatLt(candidates[j].score, candidates[i].score)

OrderRankerByScore ==
    (orderInsight # None /\ PushedCandidates # <<>>) =>
        \E i \in DOMAIN PushedCandidates :
            /\ HighestEarliest(PushedCandidates, i)
            /\ orderInsight[1].id = PushedCandidates[i].id
            /\ orderInsight[1].score = PushedCandidates[i].score

\* C9 as stated: in both rankers, whenever a rule fires, the insight returned
\* is the fired candidate with the highest numeric score, the earlier rule
\* winning among equal scores.
C9_HighestScoreWins ==
    /\ OrderRankerByScore
    /\ (rankInsight # None /\ FiredRules # <<>>) =>
           /\ \A i \in DOMAIN FiredRules : HasScore(FiredRules[i])
           /\ \E i \in DOMAIN FiredRules :
                 /\ HighestEarliest(FiredRules, i)
                 /\ rankInsight[1] = FiredRules[i]

\* C9, amended: the order-driven ranker returns the pushed candidate with the
\* highest score, the earlier pushed winning among equal scores; the
\* campaign-summary ranker gives its rules no score and returns the insight
\* of the first rule that fires, in the order revenue winner, low
\* conversion, stalled campaign.
C9_ScoreOrFirstMatch ==
    /\ OrderRankerByScore
    /\ (rankInsight # None /\ FiredRules # <<>>) =>
           /\ rankInsight[1] = FiredRules[1]
           /\ ~HasScore(rankInsight[1])

\* two pushed candidates tie on the score and the earlier one is returned
C9_Witness ==
    /\ orderInsight # None
    /\ Len(PushedCandidates) >= 2
    /\ RatEq(PushedCandidates[1].score, PushedCandidates[2].score)
    /\ orderInsight[1].id = PushedCandidates[1].id

Revenue(campaign) ==
    IF campaign.results = None THEN 0
    ELSE OrZero(campaign.results[1].totalOrderValue)

\* the result's conversionRate, else successCount / totalCount, else 0
ConversionOf(campaign) ==
    LET results == campaign.results[1]
    IN IF results.conversionRate # None THEN results.conversionRate[1]
       ELSE IF results.sendStatus # None /\ results.sendStatus[1].totalCount # 0
       THEN Rat(results.sendStatus[1].successCount, results.sendStatus[1].totalCount)
       ELSE Rat(0, 1)

\* campaign i has the highest totalOrderValue, which is positive; of several
\* with that value the first in the list
TopRevenue(i) ==
    /\ Revenue(rankCampaigns[i]) > 0
    /\ \A j \in DOMAIN rankCampaigns : Revenue(rankCampaigns[j]) <= Revenue(rankCampaigns[i])
    /\ \A j \in 1..(i - 1) : Revenue(rankCampaigns[j]) < Revenue(rankCampaigns[i])

IsWinnerInsight(insight) == Len(insight.id) = 3 /\ insight.id[3] = "winner"

\* C10: the campaign-summary ranker produces the revenue-winner insight
\* exactly when the campaign with the highest positive totalOrderValue has a
\* conversion rate >= 0.04; the insight names that campaign and its severity
\* is high when the totalOrderValue is above 400000, medium otherwise.
C10_RevenueWinner ==
    rankInsight # None =>
        /\ IsWinnerInsight(rankInsight[1]) <=>
               \E i \in DOMAIN rankCampaigns :
                   TopRevenue(i) /\ RatGe(ConversionOf(rankCampaigns[i]), Rat(4, 100))
        /\ \A i \in DOMAIN rankCampaigns :
               (TopRevenue(i) /\ RatGe(ConversionOf(rankCampaigns[i]), Rat(4, 100))) =>
                   rankInsight[1] =
                       [id |-> <<"campaign", rankCampaigns[i].campaignId, "winner">>,
                        severity |-> IF Revenue(rankCampaigns[i]) > 400000
                                     THEN "high" ELSE "medium"]

\* totalOrderValue 500000 at conversionRate 0.06, the highest revenue of two
C10_Witness ==
    /\ rankInsight # None
    /\ Len(rankCampaigns) = 2
    /\ Revenue(rankCampaigns[2]) = 500000
    /\ rankCampaigns[2].results[1].conversionRate = Some(Rat(6, 100))
    /\ Revenue(rankCampaigns[1]) = 400000
    /\ rankInsight[1] = [id |-> <<"campaign", "c2", "winner">>, severity |-> "high"]

----------------------------------------------------------------------------
(* C11 *)

\* total sends of a joined campaign, 0 without a send status or a result
TotalSentOf(campaign) ==
    IF campaign.results = None \/ campaign.results[1].sendStatus = None THEN 0
    ELSE campaign.results[1].sendStatus[1].totalCount

\* the status is read whatever its letter case
IsStalled(campaign) ==
    /\ toLowerCase(campaign.status) \in {"running", "scheduled", "processing"}
    /\ TotalSentOf(campaign) = 0

NeitherWinnerNorLow ==
    LET performances == collectCampaignPerformance(rankCampaigns)
    IN /\ revenueWinnerInsight(performances) = None
       /\ lowConversionInsight(performances) = None

\* C11: when neither the revenue-winner nor the low-conversion rule fires and
\* some campaign of the list is stalled (status running, scheduled or
\* processing, no sends), the insight returned is the stalled-campaign
\* insight, severity medium, for the first stalled campaign of the list.
C11_StalledCampaign ==
    (rankInsight # None /\ NeitherWinnerNorLow) =>
        \A i \in DOMAIN rankCampaigns :
            (IsStalled(rankCampaigns[i])
             /\ \A j \in 1..(i - 1) : ~IsStalled(rankCampaigns[j])) =>
                rankInsight[1] =
                    [id |-> <<"campaign", rankCampaigns[i].campaignId, "inactive">>,
                     severity |-> "medium"]

----------------------------------------------------------------------------
(* C12 *)

RECURSIVE SumSendStatus(_, _, _)
SumSendStatus(campaigns, n, field) ==
    IF n = 0 THEN 0
    ELSE SumSendStatus(campaigns, n - 1, field)
         + (IF campaigns[n].results = None \/ campaigns[n].results[1].sendStatus = None
            THEN 0
            ELSE IF field = "success"
                 THEN campaigns[n].results[1].sendStatus[1].successCount
                 ELSE campaigns[n].results[1].sendStatus[1].totalCount)

SentOverall == SumSendStatus(rankCampaigns, Len(rankCampaigns), "total")
SuccessOverall == SumSendStatus(rankCampaigns, Len(rankCampaigns), "success")

OrderFallbackIsLow ==
    (orderInsight # None /\ PushedCandidates = <<>>) =>
        /\ orderInsight[1].id = <<"consistent-growth">>
        /\ orderInsight[1].severity = "low"
        /\ RatEq(orderInsight[1].score, Rat(0, 1))

\* C12 as stated: whenever no rule fires, either ranker returns its generic
\* fallback, with severity low.
C12_FallbackIsLow ==
    /\ OrderFallbackIsLow
    /\ (rankInsight # None /\ FiredRules = <<>>) =>
           /\ rankInsight[1].id \in {<<"campaign-keep-iterating">>, <<"campaigns-missing-data">>}
           /\ rankInsight[1].severity = "low"

\* C12, amended: when no rule fires the order-driven ranker returns the
\* consistent-growth fallback, severity low, score 0; the campaign-summary
\* ranker returns campaigns-missing-data, severity low, when no campaign has
\* a result, and otherwise campaign-keep-iterating, whose severity is medium
\* when successes / sends over all campaigns is at least 0.05 and low when
\* it is less or nothing was sent.
C12_FallbackSeverity ==
    /\ OrderFallbackIsLow
    /\ (rankInsight # None /\ FiredRules = <<>>) =>
           IF \A i \in DOMAIN rankCampaigns : rankCampaigns[i].results = None
           THEN rankInsight[1] = [id |-> <<"campaigns-missing-data">>, severity |-> "low"]
           ELSE rankInsight[1] =
                    [id |-> <<"campaign-keep-iterating">>,
                     severity |-> IF SentOverall # 0 /\ 100 * SuccessOverall >= 5 * SentOverall
                                  THEN "medium" ELSE "low"]

\* no rule fires and the fallback comes out with severity medium
C12_Witness ==
    /\ rankInsight # None
    /\ FiredRules = <<>>
    /\ rankInsight[1] = [id |-> <<"campaign-keep-iterating">>, severity |-> "medium"]

----------------------------------------------------------------------------
(* C13 *)

ValidTimes == {OrderTime(insightOrders[i])[1] :
                  i \in {j \in DOMAIN insightOrders : OrderTime(insightOrders[j]) # None}}

\* the latest order date, which the handler takes for now
LatestTime == CHOOSE t \in ValidTimes : \A u \in ValidTimes : u <= t

\* delivered revenue of the orders dated in [from, to), or in [from, to]
RECURSIVE DeliveredBetween(_, _, _, _)
DeliveredBetween(n, from, to, closed) ==
    IF n = 0 THEN 0
    ELSE LET order == insightOrders[n]
             time == OrderTime(order)
         IN DeliveredBetween(n - 1, from, to, closed)
            + (IF time # None /\ time[1] >= from
                  /\ (time[1] < to \/ (closed /\ time[1] = to))
                  /\ order.status = "delivered"
               THEN OrZero(order.totalPrice) ELSE 0)

TrailingRevenue ==
    DeliveredBetween(Len(insightOrders), LatestTime - 7, LatestTime, TRUE)
PrecedingRevenue ==
    DeliveredBetween(Len(insightOrders), LatestTime - 14, LatestTime - 7, FALSE)

\* the candidates the handler can have pushed, one list per rounding
CandidateLists ==
    LET normalizedOrders == normalizeOrders(insightOrders)
        reference == referenceDate(normalizedOrders, Len(normalizedOrders))
        effectiveNow == IF reference.v # 0 THEN reference ELSE Num(InsightToday)
    IN {orderCandidates(normalizedOrders, effectiveNow, dropPercent) :
           dropPercent \in dropPercents(normalizedOrders, effectiveNow)}

WithId(candidates, id) ==
    LET HasId(candidate) == candidate.id = <<id>>
    IN SelectSeq(candidates, HasId)

\* C13: the weekly-revenue-drop candidate is pushed exactly when the
\* preceding 7 days' delivered revenue is positive and the trailing 7 days'
\* is lower by at least 10% of it; its severity is high when the drop is
\* above 20% and medium otherwise; its score is the drop over the preceding
\* revenue.
C13_WeeklyRevenueDrop ==
    (orderInsight # None /\ ValidTimes # {}) =>
        \A candidates \in CandidateLists :
            LET drop == PrecedingRevenue - TrailingRevenue
                pushed == WithId(candidates, "weekly-revenue-drop")
            IN /\ pushed # <<>> <=> (PrecedingRevenue > 0 /\ 10 * drop >= PrecedingRevenue)
               /\ pushed # <<>> =>
                      /\ Len(pushed) = 1
                      /\ pushed[1].severity =
                             (IF 100 * drop > 20 * PrecedingRevenue THEN "high" ELSE "medium")
                      /\ RatEq(pushed[1].score, Rat(drop, PrecedingRevenue))

----------------------------------------------------------------------------
(* C14 *)

\* the weekday of each order dated in the trailing 30 days, 7 for the others
WeekdayOfOrders ==
    LET latest == LatestTime
    IN [i \in DOMAIN insightOrders |->
           LET time == OrderTime(insightOrders[i])
           IN IF time # None /\ time[1] >= latest - 30 /\ time[1] <= latest
              THEN getUTCDay(time[1]) ELSE 7]

\* over the weekdays of the set, the busiest has more than 1.4 times the
\* delivered orders of the quietest
GapOver(weekdays, delivered) ==
    \E busiest \in weekdays : \E quietest \in weekdays :
        /\ \A w \in weekdays : delivered[w] <= delivered[busiest]
        /\ \A w \in weekdays : delivered[w] >= delivered[quietest]
        /\ 10 * delivered[busiest] > 14 * delivered[quietest]

\* onlyPresent: compare the weekdays some order of the window falls on
GapPushed(onlyPresent) ==
    (orderInsight # None /\ ValidTimes # {}) =>
        LET weekdayOf == WeekdayOfOrders
            delivered == [w \in 0..6 |->
                Cardinality({i \in DOMAIN insightOrders :
                    weekdayOf[i] = w /\ insightOrders[i].status = "delivered"})]
            weekdays == IF onlyPresent
                        THEN {w \in 0..6 : \E i \in DOMAIN insightOrders : weekdayOf[i] = w}
                        ELSE 0..6
            pushed == WithId(PushedCandidates, "weekday-gap")
        IN /\ pushed # <<>> <=> GapOver(weekdays, delivered)
           /\ pushed # <<>> => (Len(pushed) = 1 /\ pushed[1].severity = "low")

\* C14 as stated: the weekday-gap candidate is pushed exactly when, over the
\* weekdays, one without delivered order in the trailing 30 days counting as
\* 0, the busiest weekday has more than 1.4 times the delivered orders of the
\* quietest; its severity is low.
C14_WeekdayGap == GapPushed(FALSE)

\* C14, amended: the weekdays compared are those on which at least one order
\* of the trailing 30 days falls, delivered or not; a weekday without any
\* order is not compared.
C14_WeekdayGapAmongPresent == GapPushed(TRUE)

\* pushed with delivered orders on both the busiest and the quietest weekday
C14_Witness ==
    /\ orderInsight # None
    /\ Len(insightOrders) = 3
    /\ \A i \in DOMAIN insightOrders : insightOrders[i].status = "delivered"
    /\ {insightOrders[i].createdAt.str : i \in DOMAIN insightOrders}
           = {"2025-11-05", "2025-10-29", "2025-10-28"}
    /\ WithId(PushedCandidates, "weekday-gap") # <<>>

----------------------------------------------------------------------------
(* C15 *)

\* the buckets enumerated inside the range: the day starts from the start's
\* day, the Sundays from the start's week to the end's, or the month starts
\* from the start's month, up to the end of the range
BucketBoundaries ==
    LET last == chartRange.end
        first == chartRange.start
        days == (first \div 24)..(last \div 24)
    IN CASE chartPeriod = "daily" -> {24 * d : d \in days}
         [] chartPeriod = "weekly" ->
                {24 * d : d \in {e \in ((first \div 24) - 6)..(last \div 24) :
                                     (e + 4) % 7 = 0}}
         [] chartPeriod = "monthly" ->
                {24 * m : m \in {n \in MonthStarts :
                     n <= last \div 24
                     /\ \A later \in MonthStarts : later <= first \div 24 => later <= n}}

\* the amounts of the paid sales whose normalized date is the boundary's
RECURSIVE PaidInto(_, _)
PaidInto(n, boundary) ==
    IF n = 0 THEN 0
    ELSE PaidInto(n - 1, boundary)
         + (IF chartSales[n].status = "paid"
               /\ normalizeDateOfPeriod(chartSales[n].date, chartPeriod)
                      = normalizeDateOfPeriod(boundary, chartPeriod)
            THEN chartSales[n].amount ELSE 0)

\* C15: the series has one entry per bucket enumerated inside the range, in
\* chronological order, and the amount of an entry is the sum of the amounts
\* of the paid sales whose normalized date equals the normalized boundary of
\* its bucket; other sales add nothing.
C15_RevenueSeries ==
    chartData # None =>
        LET series == chartData[1]
            boundaries == Ascending(BucketBoundaries)
        IN /\ Len(series) = Len(boundaries)
           /\ \A i \in DOMAIN series :
                 /\ series[i].amount = PaidInto(Len(chartSales), boundaries[i])
                 /\ series[i].date \in {boundaries[i],
                                        normalizeDateOfPeriod(boundaries[i], chartPeriod)}
           /\ \A i \in DOMAIN series : \A j \in DOMAIN series :
                 i < j => series[i].date < series[j].date

\* three daily buckets, a paid 100 and a refunded 999 on the second day
C15_Witness ==
    /\ chartData # None
    /\ chartPeriod = "daily"
    /\ chartRange = [start |-> At(20393, 0), end |-> At(20395, 12)]
    /\ chartSales = <<[date |-> At(20394, 12), status |-> "paid", amount |-> 100],
                      [date |-> At(20394, 12), status |-> "refunded", amount |-> 999]>>
    /\ [i \in 1..3 |-> chartData[1][i].amount] = <<0, 100, 0>>

-----------------------------------------------------------------------------
(* C16, C17: the fallback segmentation's cohorts *)

SegmentsOut == segmentation[1].segments

\* the cohort the thresholds give a rating: promoters from 4, neutral from 2.5
CohortOf(averageRating) ==
    IF RatGe(averageRating, Rat(4, 1)) THEN "promoters"
    ELSE IF RatGe(averageRating, Rat(5, 2)) THEN "neutral"
    ELSE "detractors"

CohortIds == {"promoters", "neutral", "detractors"}

\* where a customer id stands in the output: <<segment, position>>
PlacesOf(segments, id) ==
    {place \in UNION {{k} \X DOMAIN segments[k].memberIds : k \in DOMAIN segments} :
        segments[place[1]].memberIds[place[2]] = id}

\* C16: for a non-empty profile list, every profile's storeConsumerId is in the
\* memberIds of exactly one output segment, the one its averageRating selects
\* (promoters at 4 and above, neutral from 2.5 to below 4, detractors below
\* 2.5), so the cohorts are disjoint and cover every profile.
C16_CohortPartition ==
    (segmentation # None /\ segProfiles # <<>>) =>
        LET segments == SegmentsOut
        IN  /\ \A i \in DOMAIN segProfiles :
                LET places == PlacesOf(segments, segProfiles[i].storeConsumerId)
                IN  /\ Cardinality(places) = 1
                    /\ \A place \in places :
                        segments[place[1]].id = CohortOf(segProfiles[i].averageRating)
            /\ \A k \in DOMAIN segments : \A j \in DOMAIN segments[k].memberIds :
                \E i \in DOMAIN segProfiles :
                    segProfiles[i].storeConsumerId = segments[k].memberIds[j]

\* all three cohorts filled, with profiles at exactly 2.5 and exactly 4
C16_Witness ==
    /\ segmentation # None
    /\ Len(segProfiles) = 3
    /\ \E i \in DOMAIN segProfiles : segProfiles[i].averageRating = Rat(4, 1)
    /\ \E i \in DOMAIN segProfiles : segProfiles[i].averageRating = Rat(5, 2)
    /\ \E i \in DOMAIN segProfiles : segProfiles[i].averageRating = Rat(7, 3)
    /\ Len(SegmentsOut) = 3

\* every output segment has a member, and a cohort is in the output exactly
\* when some profile belongs to it
CohortsKeptIffFilled ==
    LET segments == SegmentsOut
    IN  /\ \A k \in DOMAIN segments : Len(segments[k].memberIds) >= 1
        /\ \A cohort \in CohortIds :
            (\E k \in DOMAIN segments : segments[k].id = cohort)
                <=> (\E i \in DOMAIN segProfiles :
                        CohortOf(segProfiles[i].averageRating) = cohort)

\* C17 as stated: for every profile list, the empty one included, every output
\* segment has at least one member id, and a cohort is left out exactly when
\* it has no members.
C17_NoMemberlessSegment ==
    segmentation # None => CohortsKeptIffFilled

\* C17, amended: for a non-empty profile list every output segment has at
\* least one member id and a cohort is left out exactly when it has no members,
\* also when its share rounds to 0%; for the empty list the output is the one
\* 'collect-feedback' segment, which has no member ids.
C17_NoMemberlessCohort ==
    segmentation # None =>
        IF segProfiles # <<>> THEN CohortsKeptIffFilled
        ELSE /\ Len(SegmentsOut) = 1
             /\ SegmentsOut[1].id = "collect-feedback"
             /\ SegmentsOut[1].memberIds = <<>>

\* a one-member cohort whose share rounds to 0% is in the output
C17_Witness ==
    /\ segmentation # None
    /\ \E k \in DOMAIN SegmentsOut :
        /\ SegmentsOut[k].id = "detractors"
        /\ Len(SegmentsOut[k].memberIds) = 1
        /\ SegmentsOut[k].coverage[3] = 0

-----------------------------------------------------------------------------
(* C18, C19: the feedback profiles *)

ProfilesOut == profilesBuilt[1]

CustomersIn == {profileFeedbacks[i].storeConsumerId : i \in DOMAIN profileFeedbacks}

FeedbacksOf(customer) ==
    {i \in DOMAIN profileFeedbacks : profileFeedbacks[i].storeConsumerId = customer}

\* a rating brought into 0..5, a non-finite one counted as 0
ClampedRating(rating) ==
    IF rating.nan THEN 0
    ELSE IF rating.v < 0 THEN 0 ELSE IF rating.v > 5 THEN 5 ELSE rating.v

RECURSIVE ClampedSum(_, _)
ClampedSum(customer, n) ==
    IF n = 0 THEN 0
    ELSE ClampedSum(customer, n - 1)
         + (IF profileFeedbacks[n].storeConsumerId = customer
            THEN ClampedRating(profileFeedbacks[n].rating) ELSE 0)

RECURSIVE TotalFeedbacksUpTo(_, _)
TotalFeedbacksUpTo(built, n) ==
    IF n = 0 THEN 0 ELSE TotalFeedbacksUpTo(built, n - 1) + built[n].totalFeedbacks

\* C18: with a limit of at least the number of distinct customers,
\* buildCustomerFeedbackProfiles returns exactly one profile per distinct
\* storeConsumerId; its totalFeedbacks is the number of that customer's
\* feedbacks, its averageRating the sum of that customer's clamped ratings
\* divided by that number, and the totalFeedbacks add up to the number of
\* input feedbacks.
C18_OneProfilePerCustomer ==
    (profilesBuilt # None /\ profileLimit >= Cardinality(CustomersIn)) =>
        LET built == ProfilesOut
            customers == CustomersIn
        IN  /\ Len(built) = Cardinality(customers)
            /\ \A customer \in customers :
                \E k \in DOMAIN built :
                    /\ built[k].storeConsumerId = customer
                    /\ built[k].totalFeedbacks = Cardinality(FeedbacksOf(customer))
                    /\ RatEq(built[k].averageRating,
                             Rat(ClampedSum(customer, Len(profileFeedbacks)),
                                 Cardinality(FeedbacksOf(customer))))
            /\ TotalFeedbacksUpTo(built, Len(built)) = Len(profileFeedbacks)

\* two customers, one of them with two feedbacks, and a rating above 5
C18_Witness ==
    /\ profilesBuilt # None
    /\ profileLimit = DefaultProfileLimit
    /\ Len(ProfilesOut) = 2
    /\ \E k \in DOMAIN ProfilesOut : ProfilesOut[k].totalFeedbacks = 2
    /\ \E i \in DOMAIN profileFeedbacks : profileFeedbacks[i].rating = Num(7)

\* a feedback's date: updatedAt, else createdAt
FeedbackDate(feedback) ==
    IF feedback.updatedAt # None THEN feedback.updatedAt ELSE feedback.createdAt

DatesOf(customer) ==
    {FeedbackDate(profileFeedbacks[i])[1] :
        i \in {j \in FeedbacksOf(customer) : FeedbackDate(profileFeedbacks[j]) # None}}

ParseableDatesOf(customer) == {date \in DatesOf(customer) : ~DateGetTime(date).nan}

\* the values a customer's latest feedback date can take: none when no
\* feedback is dated, else the date of the latest instant
LatestOf(customer) ==
    IF DatesOf(customer) = {} THEN {None}
    ELSE IF ParseableDatesOf(customer) = {} THEN {Some(date) : date \in DatesOf(customer)}
    ELSE {Some(date) : date \in
            {d \in ParseableDatesOf(customer) :
                \A e \in ParseableDatesOf(customer) :
                    DateGetTime(e).v <= DateGetTime(d).v}}

\* the instant a customer is ranked by; an undated customer ranks last
LatestTimeOf(customer) ==
    IF ParseableDatesOf(customer) = {} THEN -1
    ELSE CHOOSE time \in {DateGetTime(d).v : d \in ParseableDatesOf(customer)} :
            \A e \in ParseableDatesOf(customer) : DateGetTime(e).v <= time

\* C19: each profile's lastFeedbackAt is the latest (updatedAt, else createdAt)
\* over that customer's feedbacks; the profiles come in non-increasing
\* lastFeedbackAt order with the undated ones last; with limit L the result is
\* exactly the min(L, number of customers) profiles that come first in that
\* order.
C19_LatestFeedbackFirst ==
    profilesBuilt # None =>
        LET built == ProfilesOut
            customers == CustomersIn
            rank == [customer \in customers |-> LatestTimeOf(customer)]
            kept == {built[k].storeConsumerId : k \in DOMAIN built}
        IN  /\ \A k \in DOMAIN built :
                built[k].lastFeedbackAt \in LatestOf(built[k].storeConsumerId)
            /\ \A i, j \in DOMAIN built :
                i < j => rank[built[i].storeConsumerId] >= rank[built[j].storeConsumerId]
            /\ Len(built) = Min(profileLimit, Cardinality(customers))
            /\ Cardinality(kept) = Len(built)
            /\ \A customer \in customers \ kept : \A other \in kept :
                rank[other] >= rank[customer]

-----------------------------------------------------------------------------
(* C20: ratings of the Feedback records *)

\* C20: every Feedback record the feedback normalizers produce has a rating
\* within 1..5, whatever the raw rating (null, missing, non-numeric, below 1,
\* above 5).
C20_RatingWithinOneToFive ==
    feedbackRecords # None =>
        \A i \in DOMAIN feedbackRecords[1] :
            LET rating == feedbackRecords[1][i].rating
            IN  /\ rating.type = "number"
                /\ ~rating.num.nan
                /\ rating.num.v >= 1
                /\ rating.num.v <= 5

-----------------------------------------------------------------------------
(* C21: the date normalizers *)

\* the date a raw value stands for: a non-empty string itself, an object's
\* non-empty iso whatever its tag, nothing for every other shape
DateMeant(raw) ==
    IF raw.shape \in {"string", "object"} /\ raw.str # "" THEN Some(raw.str) ELSE None

\* what a normalizer's result says: normalizeDate returns the string,
\* parseDate the Date of it
SameDate(by, result, meant) ==
    IF meant = None THEN result = None
    ELSE IF by = "normalizeDate" THEN result = meant
    ELSE result = Some(DateGetTime(meant[1]))

\* C21: every server date normalizer (normalizeDate, and parseDate of the
\* stats, sales and order-insight handlers) takes a plain ISO string as that
\* date, takes any object with an iso key, tagged _date or _timestamp or not,
\* as that iso value, and gives null for every other shape.
C21_DateNormalization ==
    normalizedDates # None =>
        \A i \in DOMAIN rawDates :
            SameDate(normalizedDates[1][i].by, normalizedDates[1][i].date,
                     DateMeant(rawDates[i]))

-----------------------------------------------------------------------------
(* C22: parsePayload *)

\* the elements of an array, the non-strings as their JSON text
AsStrings(items) ==
    [i \in DOMAIN items |-> IF IsString(items[i]) THEN items[i] ELSE JText(items[i])]

AllStrings(list) == \A i \in DOMAIN list : IsString(list[i])

\* what the statement gives for an array or a string with the given text
PayloadMeant(payload) ==
    IF payload.kind = "array" THEN AsStrings(payload.items)
    ELSE IF payload.kind = "text" /\ payload.items[1].kind = "array"
    THEN AsStrings(payload.items[1].items)
    ELSE IF payload.kind = "text" /\ IsString(payload.items[1])
    THEN <<payload.items[1]>>
    ELSE <<payload>>

\* C22 as stated: parsePayload returns a list of strings for every input; null
\* or absent gives []; an array gives its elements, the non-strings
\* JSON-stringified; a string that is JSON for an array gives that array's
\* elements likewise; a string that is JSON for a string gives that one
\* string; any other string gives the one-element list of the original string.
C22_PayloadAsStrings ==
    payloadOut # None =>
        /\ AllStrings(payloadOut[1])
        /\ rawPayload.kind \in {"null", "undefined"} => payloadOut[1] = <<>>
        /\ (rawPayload.kind = "array" \/ IsString(rawPayload)) =>
                payloadOut[1] = PayloadMeant(rawPayload)

\* C22, amended: as stated, except that the empty string, like null and an
\* absent payload, gives [].
C22_PayloadAsStringsOrEmpty ==
    payloadOut # None =>
        /\ AllStrings(payloadOut[1])
        /\ (rawPayload.kind \in {"null", "undefined"} \/ rawPayload = JStr("")) =>
                payloadOut[1] = <<>>
        /\ ((rawPayload.kind = "array" \/ IsString(rawPayload)) /\ rawPayload # JStr("")) =>
                payloadOut[1] = PayloadMeant(rawPayload)

\* a string that is JSON for an array with a non-string element
C22_Witness ==
    /\ payloadOut # None
    /\ rawPayload = JText(JArray(<<JStr("a"), JNumber(5)>>))
    /\ payloadOut[1] = <<JStr("a"), JText(JNumber(5))>>

-----------------------------------------------------------------------------
(* C23: a malformed createdAt in the sales handler *)

SalesRanged == salesQuery.rangeStart # None /\ salesQuery.rangeEnd # None

\* the orders a response has to cover: all of them without a range, with a
\* range those whose date lies in it
SalesExpected ==
    IF SalesRanged
    THEN {i \in DOMAIN salesOrders :
            isDateInRange(parseDate(salesOrders[i].createdAt),
                          DateGetTime(salesQuery.rangeStart[1]),
                          DateGetTime(salesQuery.rangeEnd[1]))}
    ELSE DOMAIN salesOrders

\* C23: an order whose createdAt is malformed (a string that is not a date, an
\* unrecognised object) never makes /api/sales lose the other orders: with no
\* range the handler returns exactly one Sale per loaded order, with a range
\* one Sale per order whose date lies in the range.
C23_MalformedDateKeepsSales ==
    (salesOut # None /\ salesLoad = "returns") =>
        /\ Len(salesOut[1]) = Cardinality(SalesExpected)
        /\ \A i \in SalesExpected :
            \E k \in DOMAIN salesOut[1] : salesOut[1][k].id = i

-----------------------------------------------------------------------------
(* C24: the handlers when the seeds cannot be loaded *)

\* what each handler is said to answer when the load fails
AnswerOnFailure(handler) ==
    CASE handler = "stats" -> "zeroed-stats"
      [] handler \in {"sales", "feedbacks", "campaigns"} -> "empty-list"
      [] handler = "insights" -> "error-insight"
      [] OTHER -> "fallback-payload"

\* C24: when loadSeedsData fails for both the remote source and the local
\* file, no handler lets the exception reach the client: stats returns zeroed
\* stats, sales / feedbacks / campaigns an empty list, insights the error
\* insight, and the customer-segmentation, campaign-assistant and
\* feedback-assistant handlers their fallback payload.
C24_LoadFailureIsAnswered ==
    (handlerResponse # None /\ seedLoaded = Some(Thrown)) =>
        /\ handlerResponse[1] # "exception"
        /\ handlerResponse[1] = AnswerOnFailure(handlerCalled)

-----------------------------------------------------------------------------
(* C30: loadSeedsData *)

\* the remote source is usable: a base URL is configured, the response is ok
\* and the transformed result is neither null nor undefined
RemoteUsable ==
    /\ seedBaseUrl # None
    /\ seedRemote.answer = "ok"
    /\ applyTransform(seedTransform, seedRemote.data).ended = "returned"
    /\ applyTransform(seedTransform, seedRemote.data).value.shape # "null"

\* C30 as stated: loadSeedsData returns the transformed remote data whenever
\* the remote source is usable; in every other case it returns the parsed local
\* file with the same transform applied; it throws only when the local file
\* cannot be read or parsed.
C30_SameShapeFromEitherSource ==
    seedLoaded # None =>
        IF RemoteUsable
        THEN seedLoaded[1] = applyTransform(seedTransform, seedRemote.data)
        ELSE IF seedLocal.file = "ok"
        THEN seedLoaded[1] = applyTransform(seedTransform, seedLocal.data)
        ELSE seedLoaded[1] = Thrown

\* C30, amended: loadSeedsData returns the transformed remote data whenever the
\* remote source is usable; in every other case it returns the parsed local
\* file as it is, without the transform; it throws only when the local file
\* cannot be read or parsed.
C30_LocalFileAsParsed ==
    seedLoaded # None =>
        IF RemoteUsable
        THEN seedLoaded[1] = applyTransform(seedTransform, seedRemote.data)
        ELSE IF seedLocal.file = "ok"
        THEN seedLoaded[1] = Returned(seedLocal.data)
        ELSE seedLoaded[1] = Thrown

\* a transform is passed, the remote source is not usable and the local file
\* wraps its records: the wrapper is returned
C30_Witness ==
    /\ seedLoaded = Some(Returned(SeedData("wrapped", <<1, 2>>)))
    /\ seedTransform # None
    /\ seedBaseUrl # None
    /\ seedRemote.answer = "ok"

-----------------------------------------------------------------------------
(* C25: paid sales and delivered revenue *)

RECURSIVE PaidCentavos(_, _)
PaidCentavos(list, n) ==
    IF n = 0 THEN 0
    ELSE PaidCentavos(list, n - 1)
         + (IF list[n].status = "paid" THEN list[n].amount.n ELSE 0)

RECURSIVE DeliveredCentavos(_, _)
DeliveredCentavos(expected, n) ==
    IF n = 0 THEN 0
    ELSE DeliveredCentavos(expected, n - 1)
         + (IF n \in expected /\ salesOrders[n].status = Some("delivered")
            THEN OrZero(salesOrders[n].totalPrice) ELSE 0)

\* C25: a Sale has status paid exactly when its source order has status
\* delivered, so the sum of the paid sale amounts equals the delivered revenue
\* of the stats handler for the same orders and range.
C25_PaidIffDelivered ==
    (salesOut # None /\ salesLoad = "returns") =>
        /\ \A k \in DOMAIN salesOut[1] :
            (salesOut[1][k].status = "paid")
                <=> (salesOrders[salesOut[1][k].id].status = Some("delivered"))
        /\ PaidCentavos(salesOut[1], Len(salesOut[1]))
                = DeliveredCentavos(SalesExpected, Len(salesOrders))

-----------------------------------------------------------------------------
(* C26: every in-range paid sale is charted *)

InChartRange(sale) == chartRange.start <= sale.date /\ sale.date <= chartRange.end

RECURSIVE SeriesTotal(_, _)
SeriesTotal(series, n) ==
    IF n = 0 THEN 0 ELSE SeriesTotal(series, n - 1) + series[n].amount

RECURSIVE PaidInRange(_)
PaidInRange(n) ==
    IF n = 0 THEN 0
    ELSE PaidInRange(n - 1)
         + (IF chartSales[n].status = "paid" /\ InChartRange(chartSales[n])
            THEN chartSales[n].amount ELSE 0)

\* C26: for every granularity and range, each paid sale dated within
\* [range.start, range.end] is added to some enumerated bucket, so that, the
\* sales being those of the range, the series total equals the sum of the
\* amounts of the in-range paid sales; the enumerated week buckets and the
\* Monday-anchored week of a sale always coincide.
C26_InRangeSalesCharted ==
    chartData # None =>
        LET series == chartData[1]
        IN  /\ \A n \in DOMAIN chartSales :
                (chartSales[n].status = "paid" /\ InChartRange(chartSales[n])) =>
                    \E i \in DOMAIN series :
                        series[i].date
                            = normalizeDateOfPeriod(chartSales[n].date, chartPeriod)
            /\ (\A n \in DOMAIN chartSales : InChartRange(chartSales[n])) =>
                    SeriesTotal(series, Len(series)) = PaidInRange(Len(chartSales))

-----------------------------------------------------------------------------
(* C27 *)

\* a list the insights schema describes: 1 to 5 insights of a known severity
ValidInsightList(insights) ==
    /\ Len(insights) \in MinInsights..MaxInsights
    /\ \A i \in DOMAIN insights : insights[i].severity \in {"low", "medium", "high"}

\* the step creates the entry of key k, or replaces it by another one
EntryWritten(k) ==
    /\ k \in DOMAIN cache'
    /\ k \notin DOMAIN cache \/ cache'[k] # cache[k]

\* in this step the LLM call of request r, made for key k, succeeds and
\* returns what the cache holds for k afterwards
AnsweredFor(r, k) ==
    /\ req[r].pc = "awaiting"
    /\ req[r].cacheKey = Some(k)
    /\ req'[r].path = "llm"
    /\ req'[r].insight = Some(ArrayValue(cache'[k].insights))
    /\ cache'[k].timestamp = now

\* C27: every cache entry holds 1 to 5 schema-valid insights and is written
\* only by a successful LLM call made for its key; a failed, empty, unparsable
\* or schema-invalid answer leaves the cache as it was, and so does a hit,
\* timestamps included.
C27_CacheHoldsValidatedAnswers ==
    /\ [](\A k \in DOMAIN cache : ValidInsightList(cache[k].insights))
    /\ [][/\ \A k \in DOMAIN cache' :
                EntryWritten(k) => \E r \in Requests : AnsweredFor(r, k)
          /\ \A r \in Requests :
                /\ (req[r].pc = "awaiting"
                      /\ req'[r].path \in {"llm-failed", "llm-empty", "llm-invalid"})
                        => cache' = cache
                /\ (req[r].pc = "idle" /\ req'[r].path = "cached")
                        => cache' = cache
         ]_vars

\* an answer was cached, time passed, and a second answer for the same key,
\* refused by the schema, left the entry and its timestamp in place
C27_Witness ==
    \E r1, r2 \in Requests :
        /\ req[r1].path = "llm"
        /\ req[r2].path = "llm-invalid"
        /\ req[r1].cacheKey = req[r2].cacheKey
        /\ req[r1].cacheKey[1] \in DOMAIN cache
        /\ req[r1].insight = Some(ArrayValue(cache[req[r1].cacheKey[1]].insights))
        /\ cache[req[r1].cacheKey[1]].timestamp < now

-----------------------------------------------------------------------------
(* C29 *)

\* the positions of the campaigns that have a result with a total order value
SummaryEligible ==
    {i \in DOMAIN summaryArgs.campaigns :
        /\ summaryArgs.campaigns[i].results # None
        /\ summaryArgs.campaigns[i].results[1].totalOrderValue # None}

SummaryFreshness(i) == getResultTimestamp(summaryArgs.campaigns[i].results)

\* positions of min(limit, N) eligible campaigns, freshest first, none of
\* them staler than an eligible campaign left out
FreshestEligible(chosen) ==
    /\ Len(chosen) = Min(summaryArgs.limit, Cardinality(SummaryEligible))
    /\ Range(chosen) \subseteq SummaryEligible
    /\ \A a, b \in DOMAIN chosen : a < b =>
          /\ chosen[a] # chosen[b]
          /\ NumGe(SummaryFreshness(chosen[a]), SummaryFreshness(chosen[b]))
    /\ \A a \in DOMAIN chosen : \A j \in SummaryEligible \ Range(chosen) :
          NumGe(SummaryFreshness(chosen[a]), SummaryFreshness(j))

\* C29: buildCampaignResultSummaries(campaigns, limit) returns, freshest
\* first, the summaries of the min(limit, N) freshest of the N campaigns whose
\* result has a total order value, and leaves the campaign list as it was.
C29_FreshestSummaries ==
    summaryOut # None =>
        /\ summaryCampaigns = summaryArgs.campaigns
        /\ \E chosen \in SeqsUpTo(DOMAIN summaryArgs.campaigns, MaxSummaryCampaigns) :
              /\ FreshestEligible(chosen)
              /\ summaryOut[1] =
                    [k \in DOMAIN chosen |-> summaryOf(summaryArgs.campaigns[chosen[k]])]

-----------------------------------------------------------------------------
(* C28 *)

ProfileIds == {llmProfiles[i].storeConsumerId : i \in DOMAIN llmProfiles}

\* the segment names, trimmed, at least one profile's id
HasValidMember(segment) ==
    \E i \in DOMAIN segment.memberIds :
        StringTrim(segment.memberIds[i]) \in ProfileIds \ {""}

\* the LLM's answer passed the schema
AnswerAccepted ==
    /\ llmAnswer # None
    /\ llmAnswer[1].kind = "json"
    /\ Len(llmAnswer[1].segments) \in MinLlmSegments..MaxLlmSegments
    /\ \A i \in DOMAIN llmAnswer[1].segments :
          LET segment == llmAnswer[1].segments[i]
          IN /\ segment.priority \in {"alta", "media", "baixa"}
             /\ Len(segment.memberIds) \in 1..MAX_LLM_MEMBER_IDS
             /\ "" \notin Range(segment.memberIds)

\* C28: whatever the LLM answers, each segment of a non-null result has 1 to
\* MAX_LLM_MEMBER_IDS member ids, distinct and each the storeConsumerId of a
\* profile passed in; the segments kept are those of the answer with a valid
\* member, and when none is left the result is null and the handler serves
\* the fallback segmentation with source 'fallback'.
C28_SanitizedMembers ==
    /\ llmResult # None =>
          /\ AnswerAccepted
          /\ \A i \in DOMAIN llmResult[1].segments :
                LET ids == llmResult[1].segments[i].memberIds
                IN /\ Len(ids) \in 1..MAX_LLM_MEMBER_IDS
                   /\ \A a, b \in DOMAIN ids : a # b => ids[a] # ids[b]
                   /\ Range(ids) \subseteq ProfileIds
          /\ [i \in DOMAIN llmResult[1].segments |-> llmResult[1].segments[i].id]
               = [i \in DOMAIN SelectSeq(llmAnswer[1].segments, HasValidMember) |->
                     SelectSeq(llmAnswer[1].segments, HasValidMember)[i].id]
    /\ (llmSegPc \in {"returned", "served"} /\ AnswerAccepted
          /\ \A i \in DOMAIN llmAnswer[1].segments :
                ~HasValidMember(llmAnswer[1].segments[i]))
         => llmResult = None
    /\ segmentationResponse # None =>
          IF llmResult = None
          THEN /\ segmentationResponse[1].source = "fallback"
               /\ segmentationResponse[1].payload \in buildFallbackSegmentation(llmProfiles)
          ELSE /\ segmentationResponse[1].source = "llm"
               /\ segmentationResponse[1].payload = llmResult[1]

\* a schema-valid answer named unknown, repeated and padded ids: one segment
\* lost all its members and was removed, another kept a cleaned list, and the
\* handler served the result
C28_Witness ==
    /\ segmentationResponse # None
    /\ llmResult # None
    /\ AnswerAccepted
    /\ Len(llmResult[1].segments) < Len(llmAnswer[1].segments)
    /\ \E i \in DOMAIN llmAnswer[1].segments :
          llmAnswer[1].segments[i].memberIds = <<" u1", "u1">>
    /\ \E i \in DOMAIN llmResult[1].segments :
          llmResult[1].segments[i].memberIds = <<"u1">>

\* no member of a schema-valid answer was valid: null, and the fallback is served
C28_FallbackWitness ==
    /\ segmentationResponse # None
    /\ AnswerAccepted
    /\ llmResult = None
    /\ segmentationResponse[1].source = "fallback"

====
